---- MODULE Spec2Model ----
(***************************************************************************)
(* A model of the PEARL tutoring backend: the intent classifier, the       *)
(* command dispatch of the core agent and the learning tracker with its    *)
(* three JSON files (student_profile.json, sessions.json,                  *)
(* temp_progress.json).                                                    *)
(*                                                                         *)
(* Python strings are modelled character by character: a text is a         *)
(* sequence of one-character strings, so that `in`, re.search, lower() and *)
(* strip() are computed as Python computes them.  Chars gives the          *)
(* characters of every string literal the model names.                    *)
(***************************************************************************)
EXTENDS Integers, Sequences, FiniteSets, TLC

\* ------------------------------------------------------------------------
\* Strings
\* ------------------------------------------------------------------------

\* The characters of each string literal the model names.
Spell(s) ==
  CASE s = " " -> <<" ">>
    [] s = " - " -> <<" ", "-", " ">>
    [] s = " and " -> <<" ", "a", "n", "d", " ">>
    [] s = "*" -> <<"*">>
    [] s = "+" -> <<"+">>
    [] s = "-" -> <<"-">>
    [] s = "/" -> <<"/">>
    [] s = "Add 2 and 3" -> <<"A", "d", "d", " ", "2", " ", "a", "n", "d", " ", "3">>
    [] s = "activate" -> <<"a", "c", "t", "i", "v", "a", "t", "e">>
    [] s = "add" -> <<"a", "d", "d">>
    [] s = "alarm" -> <<"a", "l", "a", "r", "m">>
    [] s = "algebra" -> <<"a", "l", "g", "e", "b", "r", "a">>
    [] s = "ancient" -> <<"a", "n", "c", "i", "e", "n", "t">>
    [] s = "apple" -> <<"a", "p", "p", "l", "e">>
    [] s = "apples" -> <<"a", "p", "p", "l", "e", "s">>
    [] s = "arithmetic" -> <<"a", "r", "i", "t", "h", "m", "e", "t", "i", "c">>
    [] s = "atom" -> <<"a", "t", "o", "m">>
    [] s = "battle" -> <<"b", "a", "t", "t", "l", "e">>
    [] s = "biology" -> <<"b", "i", "o", "l", "o", "g", "y">>
    [] s = "board" -> <<"b", "o", "a", "r", "d">>
    [] s = "book" -> <<"b", "o", "o", "k">>
    [] s = "calculate" -> <<"c", "a", "l", "c", "u", "l", "a", "t", "e">>
    [] s = "cam" -> <<"c", "a", "m">>
    [] s = "camera" -> <<"c", "a", "m", "e", "r", "a">>
    [] s = "camera_off" -> <<"c", "a", "m", "e", "r", "a", "_", "o", "f", "f">>
    [] s = "camera_on" -> <<"c", "a", "m", "e", "r", "a", "_", "o", "n">>
    [] s = "can you" -> <<"c", "a", "n", " ", "y", "o", "u">>
    [] s = "canvas" -> <<"c", "a", "n", "v", "a", "s">>
    [] s = "capital" -> <<"c", "a", "p", "i", "t", "a", "l">>
    [] s = "capture" -> <<"c", "a", "p", "t", "u", "r", "e">>
    [] s = "character" -> <<"c", "h", "a", "r", "a", "c", "t", "e", "r">>
    [] s = "chemistry" -> <<"c", "h", "e", "m", "i", "s", "t", "r", "y">>
    [] s = "circle" -> <<"c", "i", "r", "c", "l", "e">>
    [] s = "circles" -> <<"c", "i", "r", "c", "l", "e", "s">>
    [] s = "city" -> <<"c", "i", "t", "y">>
    [] s = "civilization" -> <<"c", "i", "v", "i", "l", "i", "z", "a", "t", "i", "o", "n">>
    [] s = "clean" -> <<"c", "l", "e", "a", "n">>
    [] s = "clear" -> <<"c", "l", "e", "a", "r">>
    [] s = "clear the board" -> <<"c", "l", "e", "a", "r", " ", "t", "h", "e", " ", "b", "o", "a", "r", "d">>
    [] s = "clear_board" -> <<"c", "l", "e", "a", "r", "_", "b", "o", "a", "r", "d">>
    [] s = "climate" -> <<"c", "l", "i", "m", "a", "t", "e">>
    [] s = "close" -> <<"c", "l", "o", "s", "e">>
    [] s = "compound" -> <<"c", "o", "m", "p", "o", "u", "n", "d">>
    [] s = "comprehension" -> <<"c", "o", "m", "p", "r", "e", "h", "e", "n", "s", "i", "o", "n">>
    [] s = "confused" -> <<"c", "o", "n", "f", "u", "s", "e", "d">>
    [] s = "continent" -> <<"c", "o", "n", "t", "i", "n", "e", "n", "t">>
    [] s = "could you" -> <<"c", "o", "u", "l", "d", " ", "y", "o", "u">>
    [] s = "country" -> <<"c", "o", "u", "n", "t", "r", "y">>
    [] s = "creative writing" -> <<"c", "r", "e", "a", "t", "i", "v", "e", " ", "w", "r", "i", "t", "i", "n", "g">>
    [] s = "deactivate" -> <<"d", "e", "a", "c", "t", "i", "v", "a", "t", "e">>
    [] s = "deactivate camera" -> <<"d", "e", "a", "c", "t", "i", "v", "a", "t", "e", " ", "c", "a", "m", "e", "r", "a">>
    [] s = "decimal" -> <<"d", "e", "c", "i", "m", "a", "l">>
    [] s = "desert" -> <<"d", "e", "s", "e", "r", "t">>
    [] s = "disable" -> <<"d", "i", "s", "a", "b", "l", "e">>
    [] s = "disable the cam" -> <<"d", "i", "s", "a", "b", "l", "e", " ", "t", "h", "e", " ", "c", "a", "m">>
    [] s = "display" -> <<"d", "i", "s", "p", "l", "a", "y">>
    [] s = "divide" -> <<"d", "i", "v", "i", "d", "e">>
    [] s = "divide 4 by 0" -> <<"d", "i", "v", "i", "d", "e", " ", "4", " ", "b", "y", " ", "0">>
    [] s = "divided by" -> <<"d", "i", "v", "i", "d", "e", "d", " ", "b", "y">>
    [] s = "draw" -> <<"d", "r", "a", "w">>
    [] s = "draw an apple" -> <<"d", "r", "a", "w", " ", "a", "n", " ", "a", "p", "p", "l", "e">>
    [] s = "draw_apple" -> <<"d", "r", "a", "w", "_", "a", "p", "p", "l", "e">>
    [] s = "draw_circle" -> <<"d", "r", "a", "w", "_", "c", "i", "r", "c", "l", "e">>
    [] s = "element" -> <<"e", "l", "e", "m", "e", "n", "t">>
    [] s = "empire" -> <<"e", "m", "p", "i", "r", "e">>
    [] s = "enable" -> <<"e", "n", "a", "b", "l", "e">>
    [] s = "energy" -> <<"e", "n", "e", "r", "g", "y">>
    [] s = "equation" -> <<"e", "q", "u", "a", "t", "i", "o", "n">>
    [] s = "erase" -> <<"e", "r", "a", "s", "e">>
    [] s = "essay" -> <<"e", "s", "s", "a", "y">>
    [] s = "experiment" -> <<"e", "x", "p", "e", "r", "i", "m", "e", "n", "t">>
    [] s = "explain" -> <<"e", "x", "p", "l", "a", "i", "n">>
    [] s = "explain " -> <<"e", "x", "p", "l", "a", "i", "n", " ">>
    [] s = "explain gravity" -> <<"e", "x", "p", "l", "a", "i", "n", " ", "g", "r", "a", "v", "i", "t", "y">>
    [] s = "figure out" -> <<"f", "i", "g", "u", "r", "e", " ", "o", "u", "t">>
    [] s = "first" -> <<"f", "i", "r", "s", "t">>
    [] s = "force" -> <<"f", "o", "r", "c", "e">>
    [] s = "forest" -> <<"f", "o", "r", "e", "s", "t">>
    [] s = "fraction" -> <<"f", "r", "a", "c", "t", "i", "o", "n">>
    [] s = "geography" -> <<"g", "e", "o", "g", "r", "a", "p", "h", "y">>
    [] s = "geometry" -> <<"g", "e", "o", "m", "e", "t", "r", "y">>
    [] s = "get_weather" -> <<"g", "e", "t", "_", "w", "e", "a", "t", "h", "e", "r">>
    [] s = "government" -> <<"g", "o", "v", "e", "r", "n", "m", "e", "n", "t">>
    [] s = "grammar" -> <<"g", "r", "a", "m", "m", "a", "r">>
    [] s = "gravity" -> <<"g", "r", "a", "v", "i", "t", "y">>
    [] s = "hello" -> <<"h", "e", "l", "l", "o">>
    [] s = "help" -> <<"h", "e", "l", "p">>
    [] s = "help me" -> <<"h", "e", "l", "p", " ", "m", "e">>
    [] s = "help with " -> <<"h", "e", "l", "p", " ", "w", "i", "t", "h", " ">>
    [] s = "help with my homework" -> <<"h", "e", "l", "p", " ", "w", "i", "t", "h", " ", "m", "y", " ", "h", "o", "m", "e", "w", "o", "r", "k">>
    [] s = "historical" -> <<"h", "i", "s", "t", "o", "r", "i", "c", "a", "l">>
    [] s = "history" -> <<"h", "i", "s", "t", "o", "r", "y">>
    [] s = "how" -> <<"h", "o", "w">>
    [] s = "hypothesis" -> <<"h", "y", "p", "o", "t", "h", "e", "s", "i", "s">>
    [] s = "i don't understand" -> <<"i", " ", "d", "o", "n", "'", "t", " ", "u", "n", "d", "e", "r", "s", "t", "a", "n", "d">>
    [] s = "image" -> <<"i", "m", "a", "g", "e">>
    [] s = "in" -> <<"i", "n">>
    [] s = "kindergarten" -> <<"k", "i", "n", "d", "e", "r", "g", "a", "r", "t", "e", "n">>
    [] s = "king" -> <<"k", "i", "n", "g">>
    [] s = "law" -> <<"l", "a", "w">>
    [] s = "leader" -> <<"l", "e", "a", "d", "e", "r">>
    [] s = "learn about " -> <<"l", "e", "a", "r", "n", " ", "a", "b", "o", "u", "t", " ">>
    [] s = "literature" -> <<"l", "i", "t", "e", "r", "a", "t", "u", "r", "e">>
    [] s = "math" -> <<"m", "a", "t", "h">>
    [] s = "math_addition" -> <<"m", "a", "t", "h", "_", "a", "d", "d", "i", "t", "i", "o", "n">>
    [] s = "math_division" -> <<"m", "a", "t", "h", "_", "d", "i", "v", "i", "s", "i", "o", "n">>
    [] s = "math_multiplication" -> <<"m", "a", "t", "h", "_", "m", "u", "l", "t", "i", "p", "l", "i", "c", "a", "t", "i", "o", "n">>
    [] s = "math_subtraction" -> <<"m", "a", "t", "h", "_", "s", "u", "b", "t", "r", "a", "c", "t", "i", "o", "n">>
    [] s = "mathematics" -> <<"m", "a", "t", "h", "e", "m", "a", "t", "i", "c", "s">>
    [] s = "medieval" -> <<"m", "e", "d", "i", "e", "v", "a", "l">>
    [] s = "minus" -> <<"m", "i", "n", "u", "s">>
    [] s = "minute" -> <<"m", "i", "n", "u", "t", "e">>
    [] s = "modern" -> <<"m", "o", "d", "e", "r", "n">>
    [] s = "molecule" -> <<"m", "o", "l", "e", "c", "u", "l", "e">>
    [] s = "motion" -> <<"m", "o", "t", "i", "o", "n">>
    [] s = "mountain" -> <<"m", "o", "u", "n", "t", "a", "i", "n">>
    [] s = "multiply" -> <<"m", "u", "l", "t", "i", "p", "l", "y">>
    [] s = "my homework" -> <<"m", "y", " ", "h", "o", "m", "e", "w", "o", "r", "k">>
    [] s = "number" -> <<"n", "u", "m", "b", "e", "r">>
    [] s = "numbers" -> <<"n", "u", "m", "b", "e", "r", "s">>
    [] s = "ocean" -> <<"o", "c", "e", "a", "n">>
    [] s = "off" -> <<"o", "f", "f">>
    [] s = "on" -> <<"o", "n">>
    [] s = "open" -> <<"o", "p", "e", "n">>
    [] s = "paragraph" -> <<"p", "a", "r", "a", "g", "r", "a", "p", "h">>
    [] s = "percent" -> <<"p", "e", "r", "c", "e", "n", "t">>
    [] s = "photo" -> <<"p", "h", "o", "t", "o">>
    [] s = "physics" -> <<"p", "h", "y", "s", "i", "c", "s">>
    [] s = "picture" -> <<"p", "i", "c", "t", "u", "r", "e">>
    [] s = "plot" -> <<"p", "l", "o", "t">>
    [] s = "plus" -> <<"p", "l", "u", "s">>
    [] s = "poem" -> <<"p", "o", "e", "m">>
    [] s = "population" -> <<"p", "o", "p", "u", "l", "a", "t", "i", "o", "n">>
    [] s = "president" -> <<"p", "r", "e", "s", "i", "d", "e", "n", "t">>
    [] s = "problem" -> <<"p", "r", "o", "b", "l", "e", "m">>
    [] s = "punctuation" -> <<"p", "u", "n", "c", "t", "u", "a", "t", "i", "o", "n">>
    [] s = "queen" -> <<"q", "u", "e", "e", "n">>
    [] s = "ratio" -> <<"r", "a", "t", "i", "o">>
    [] s = "read" -> <<"r", "e", "a", "d">>
    [] s = "reading" -> <<"r", "e", "a", "d", "i", "n", "g">>
    [] s = "report" -> <<"r", "e", "p", "o", "r", "t">>
    [] s = "reset" -> <<"r", "e", "s", "e", "t">>
    [] s = "revolution" -> <<"r", "e", "v", "o", "l", "u", "t", "i", "o", "n">>
    [] s = "river" -> <<"r", "i", "v", "e", "r">>
    [] s = "science" -> <<"s", "c", "i", "e", "n", "c", "e">>
    [] s = "screen" -> <<"s", "c", "r", "e", "e", "n">>
    [] s = "second" -> <<"s", "e", "c", "o", "n", "d">>
    [] s = "sentence" -> <<"s", "e", "n", "t", "e", "n", "c", "e">>
    [] s = "set" -> <<"s", "e", "t">>
    [] s = "set a timer for 5 minutes" -> <<"s", "e", "t", " ", "a", " ", "t", "i", "m", "e", "r", " ", "f", "o", "r", " ", "5", " ", "m", "i", "n", "u", "t", "e", "s">>
    [] s = "set_timer" -> <<"s", "e", "t", "_", "t", "i", "m", "e", "r">>
    [] s = "setting" -> <<"s", "e", "t", "t", "i", "n", "g">>
    [] s = "show" -> <<"s", "h", "o", "w">>
    [] s = "show me" -> <<"s", "h", "o", "w", " ", "m", "e">>
    [] s = "show me how" -> <<"s", "h", "o", "w", " ", "m", "e", " ", "h", "o", "w">>
    [] s = "snapshot" -> <<"s", "n", "a", "p", "s", "h", "o", "t">>
    [] s = "solve" -> <<"s", "o", "l", "v", "e">>
    [] s = "spelling" -> <<"s", "p", "e", "l", "l", "i", "n", "g">>
    [] s = "start" -> <<"s", "t", "a", "r", "t">>
    [] s = "state" -> <<"s", "t", "a", "t", "e">>
    [] s = "stop" -> <<"s", "t", "o", "p">>
    [] s = "stop the camera" -> <<"s", "t", "o", "p", " ", "t", "h", "e", " ", "c", "a", "m", "e", "r", "a">>
    [] s = "story" -> <<"s", "t", "o", "r", "y">>
    [] s = "study " -> <<"s", "t", "u", "d", "y", " ">>
    [] s = "subtract" -> <<"s", "u", "b", "t", "r", "a", "c", "t">>
    [] s = "take" -> <<"t", "a", "k", "e">>
    [] s = "take a photo" -> <<"t", "a", "k", "e", " ", "a", " ", "p", "h", "o", "t", "o">>
    [] s = "take_photo" -> <<"t", "a", "k", "e", "_", "p", "h", "o", "t", "o">>
    [] s = "teach" -> <<"t", "e", "a", "c", "h">>
    [] s = "teach me " -> <<"t", "e", "a", "c", "h", " ", "m", "e", " ">>
    [] s = "temperature" -> <<"t", "e", "m", "p", "e", "r", "a", "t", "u", "r", "e">>
    [] s = "text" -> <<"t", "e", "x", "t">>
    [] s = "theme" -> <<"t", "h", "e", "m", "e">>
    [] s = "theory" -> <<"t", "h", "e", "o", "r", "y">>
    [] s = "timer" -> <<"t", "i", "m", "e", "r">>
    [] s = "times" -> <<"t", "i", "m", "e", "s">>
    [] s = "turn off" -> <<"t", "u", "r", "n", " ", "o", "f", "f">>
    [] s = "turn on" -> <<"t", "u", "r", "n", " ", "o", "n">>
    [] s = "turn on the camera" -> <<"t", "u", "r", "n", " ", "o", "n", " ", "t", "h", "e", " ", "c", "a", "m", "e", "r", "a">>
    [] s = "understand" -> <<"u", "n", "d", "e", "r", "s", "t", "a", "n", "d">>
    [] s = "understand " -> <<"u", "n", "d", "e", "r", "s", "t", "a", "n", "d", " ">>
    [] s = "vocabulary" -> <<"v", "o", "c", "a", "b", "u", "l", "a", "r", "y">>
    [] s = "war" -> <<"w", "a", "r">>
    [] s = "weather" -> <<"w", "e", "a", "t", "h", "e", "r">>
    [] s = "weather in paris" -> <<"w", "e", "a", "t", "h", "e", "r", " ", "i", "n", " ", "p", "a", "r", "i", "s">>
    [] s = "what" -> <<"w", "h", "a", "t">>
    [] s = "when" -> <<"w", "h", "e", "n">>
    [] s = "where" -> <<"w", "h", "e", "r", "e">>
    [] s = "why" -> <<"w", "h", "y">>
    [] s = "work out" -> <<"w", "o", "r", "k", " ", "o", "u", "t">>
    [] s = "write" -> <<"w", "r", "i", "t", "e">>
    [] s = "writing" -> <<"w", "r", "i", "t", "i", "n", "g">>

\* The string literals of the model.
Lexicon ==
  {" ", " - ", " and ", "*", "+", "-", "/", "Add 2 and 3", "activate",
   "add", "alarm", "algebra", "ancient", "apple", "apples",
   "arithmetic", "atom", "battle", "biology", "board", "book",
   "calculate", "cam", "camera", "camera_off", "camera_on", "can you",
   "canvas", "capital", "capture", "character", "chemistry", "circle",
   "circles", "city", "civilization", "clean", "clear", "clear the board",
   "clear_board", "climate", "close", "compound", "comprehension", "confused",
   "continent", "could you", "country", "creative writing", "deactivate", "deactivate camera",
   "decimal", "desert", "disable", "disable the cam", "display", "divide",
   "divide 4 by 0", "divided by", "draw", "draw an apple", "draw_apple", "draw_circle",
   "element", "empire", "enable", "energy", "equation", "erase",
   "essay", "experiment", "explain", "explain ", "explain gravity", "figure out",
   "first", "force", "forest", "fraction", "geography", "geometry",
   "get_weather", "government", "grammar", "gravity", "hello", "help",
   "help me", "help with ", "help with my homework", "historical", "history", "how",
   "hypothesis", "i don't understand", "image", "in", "kindergarten", "king",
   "law", "leader", "learn about ", "literature", "math", "math_addition",
   "math_division", "math_multiplication", "math_subtraction", "mathematics", "medieval", "minus",
   "minute", "modern", "molecule", "motion", "mountain", "multiply",
   "my homework", "number", "numbers", "ocean", "off", "on",
   "open", "paragraph", "percent", "photo", "physics", "picture",
   "plot", "plus", "poem", "population", "president", "problem",
   "punctuation", "queen", "ratio", "read", "reading", "report",
   "reset", "revolution", "river", "science", "screen", "second",
   "sentence", "set", "set a timer for 5 minutes", "set_timer", "setting", "show",
   "show me", "show me how", "snapshot", "solve", "spelling", "start",
   "state", "stop", "stop the camera", "story", "study ", "subtract",
   "take", "take a photo", "take_photo", "teach", "teach me ", "temperature",
   "text", "theme", "theory", "timer", "times", "turn off",
   "turn on", "turn on the camera", "understand", "understand ", "vocabulary", "war",
   "weather", "weather in paris", "what", "when", "where", "why",
   "work out", "write", "writing"}

CharsTable == [s \in Lexicon |-> Spell(s)]

\* The characters of a string literal.
Chars(s) == CharsTable[s]

\* str.lower() on one character.
LowerChar(c) ==
  CASE c = "A" -> "a"
    [] c = "B" -> "b"
    [] c = "C" -> "c"
    [] c = "D" -> "d"
    [] c = "E" -> "e"
    [] c = "F" -> "f"
    [] c = "G" -> "g"
    [] c = "H" -> "h"
    [] c = "I" -> "i"
    [] c = "J" -> "j"
    [] c = "K" -> "k"
    [] c = "L" -> "l"
    [] c = "M" -> "m"
    [] c = "N" -> "n"
    [] c = "O" -> "o"
    [] c = "P" -> "p"
    [] c = "Q" -> "q"
    [] c = "R" -> "r"
    [] c = "S" -> "s"
    [] c = "T" -> "t"
    [] c = "U" -> "u"
    [] c = "V" -> "v"
    [] c = "W" -> "w"
    [] c = "X" -> "x"
    [] c = "Y" -> "y"
    [] c = "Z" -> "z"
    [] OTHER -> c

\* str.lower()
Lower(t) == [i \in 1..Len(t) |-> LowerChar(t[i])]

IsSpace(c) == c \in {" "}

IsDigit(c) == c \in {"0", "1", "2", "3", "4", "5", "6", "7", "8", "9"}

IsAlpha(c) == LowerChar(c) \in
  {"a", "b", "c", "d", "e", "f", "g", "h", "i", "j", "k", "l", "m",
   "n", "o", "p", "q", "r", "s", "t", "u", "v", "w", "x", "y", "z"}

\* str.strip(): the text without its leading and trailing white space.
Strip(t) ==
  LET keep == {i \in 1..Len(t) : ~IsSpace(t[i])}
  IN  IF keep = {} THEN <<>>
      ELSE LET lo == CHOOSE i \in keep : \A j \in keep : i <= j
               hi == CHOOSE i \in keep : \A j \in keep : j <= i
           IN  SubSeq(t, lo, hi)

\* The literal w stands in the text t at position i.
LitAt(t, i, w) ==
  /\ i >= 1
  /\ i + Len(w) - 1 <= Len(t)
  /\ \A k \in 1..Len(w) : t[i + k - 1] = w[k]

\* The characters w stand somewhere in the text t.
Occurs(t, w) == \E i \in 1..Len(t) : LitAt(t, i, w)

\* Python's `s in t` for the string literal s.
Contains(t, s) == Occurs(t, Chars(s))

\* any(word in t for word in words)
ContainsAny(t, words) == \E s \in words : Contains(t, s)

\* ------------------------------------------------------------------------
\* Regular expressions of the shape (a|b).*(c|d).* ...: a sequence of
\* groups joined by ".*".  A group is a set of string literals, or one of
\* the two character classes the patterns use.
\* ------------------------------------------------------------------------

Digits == {"\\d+"}

AlphaSpace == {"[A-Za-z\\s]+"}

\* The positions right after a match of the character class g that starts
\* at position i.
GroupEnds(t, i, g) ==
  IF g = Digits
    THEN {j \in (i + 1)..(Len(t) + 1) : \A k \in i..(j - 1) : IsDigit(t[k])}
    ELSE {j \in (i + 1)..(Len(t) + 1) :
            \A k \in i..(j - 1) : IsAlpha(t[k]) \/ IsSpace(t[k])}

\* Groups k.. of the pattern match somewhere at or after position i; for a
\* group of literals, LiteralFrom tells it of the literal of characters w.
RECURSIVE MatchFrom(_, _, _, _)
RECURSIVE LiteralFrom(_, _, _, _, _)
LiteralFrom(t, groups, k, i, w) ==
  \E j \in i..Len(t) : LitAt(t, j, w) /\ MatchFrom(t, groups, k + 1, j + Len(w))

MatchFrom(t, groups, k, i) ==
  IF k > Len(groups) THEN TRUE
  ELSE IF groups[k] \in {Digits, AlphaSpace}
    THEN \E j \in i..Len(t) :
           \E e \in GroupEnds(t, j, groups[k]) : MatchFrom(t, groups, k + 1, e)
  ELSE \E x \in groups[k] : LiteralFrom(t, groups, k, i, Chars(x))

\* re.search(pattern, t) finds a match.
ReSearch(groups, t) == MatchFrom(t, groups, 1, 1)

\* ------------------------------------------------------------------------
\* IntentClassifier (backend/intent_classifier.py)
\* ------------------------------------------------------------------------

\* A confidence is a multiple of 1/120: every confidence the classifier
\* computes (a tenth, or half of k/n for n in 2..5) is one exactly.
Conf(tenths) == tenths * 12

IntentPattern(p, i, c, k) == [pattern |-> p, intent |-> i, confidence |-> c, keywords |-> k]

command_patterns == <<
  IntentPattern(<<{"turn on", "start", "open", "activate", "enable"}, {"camera", "cam"}>>,
                "command", Conf(9), <<"camera", "turn on", "start", "activate">>),
  IntentPattern(<<{"turn off", "stop", "close", "deactivate", "disable"}, {"camera", "cam"}>>,
                "command", Conf(9), <<"camera", "turn off", "stop", "deactivate">>),
  IntentPattern(<<{"take", "capture"}, {"photo", "picture", "image", "snapshot"}>>,
                "command", Conf(8), <<"take", "capture", "photo", "picture">>),
  IntentPattern(<<{"add", "plus", "+"}, Digits, Digits>>,
                "command", Conf(8), <<"add", "plus", "numbers">>),
  IntentPattern(<<{"subtract", "minus", "-"}, Digits, Digits>>,
                "command", Conf(8), <<"subtract", "minus", "numbers">>),
  IntentPattern(<<{"multiply", "times", "*"}, Digits, Digits>>,
                "command", Conf(8), <<"multiply", "times", "numbers">>),
  IntentPattern(<<{"divide", "divided by", "/"}, Digits, Digits>>,
                "command", Conf(8), <<"divide", "numbers">>),
  IntentPattern(<<{"clear", "clean", "erase", "reset"}, {"board", "screen", "canvas"}>>,
                "command", Conf(9), <<"clear", "clean", "board", "screen">>),
  IntentPattern(<<{"draw", "show me", "display"}, {"apple", "apples"}>>,
                "command", Conf(7), <<"draw", "show", "apple">>),
  IntentPattern(<<{"draw", "show me", "display"}, {"circle", "circles"}>>,
                "command", Conf(7), <<"draw", "show", "circle">>),
  IntentPattern(<<{"set", "start"}, {"timer", "alarm"}, Digits, {"minute", "second"}>>,
                "command", Conf(8), <<"timer", "set", "minute", "second">>),
  IntentPattern(<<{"weather", "temperature"}, {"in"}, AlphaSpace>>,
                "command", Conf(7), <<"weather", "temperature">>) >>

educational_patterns == <<
  IntentPattern(<<{"explain", "teach", "how", "why", "what", "when", "where"}>>,
                "educational", Conf(6), <<"explain", "teach", "how", "why", "what">>),
  IntentPattern(<<{"help me", "can you", "could you", "show me how"}>>,
                "educational", Conf(7), <<"help", "show me", "how">>),
  IntentPattern(<<{"i don't understand", "confused", "help"}>>,
                "educational", Conf(8), <<"understand", "confused", "help">>),
  IntentPattern(<<{"solve", "work out", "figure out", "calculate"}>>,
                "educational", Conf(6), <<"solve", "work out", "calculate">>) >>

\* A confidence that does not halve the share of the keywords found.
PatternConfidenceWhole(t, p) ==
  IF ReSearch(p.pattern, t) THEN p.confidence
  ELSE (Cardinality({k \in 1..Len(p.keywords) : Contains(t, p.keywords[k])}) * Conf(10))
         \div Len(p.keywords)

\* The confidence one pattern gives a text: its own confidence on a regex
\* match, otherwise half the share of its keywords found in the text.
PatternConfidence(t, p) ==
  IF ReSearch(p.pattern, t) THEN p.confidence
  ELSE LET keyword_matches ==
             Cardinality({k \in 1..Len(p.keywords) : Contains(t, p.keywords[k])})
       IN  (keyword_matches * Conf(5)) \div Len(p.keywords)

\* _check_patterns: the first pattern of the highest confidence, if any
\* confidence is above 0; pattern 0 stands for None.
\* The best match after pattern k, of the given confidence, is looked at.
BestMatch(best, confidence, k, keywords) ==
  IF confidence > best.confidence
    THEN [confidence |-> confidence, pattern |-> k, keywords |-> keywords]
    ELSE best

RECURSIVE CheckFrom(_, _, _, _)
CheckFrom(t, patterns, k, best) ==
  IF k > Len(patterns) THEN best
  ELSE CheckFrom(t, patterns, k + 1,
                 BestMatch(best, PatternConfidence(t, patterns[k]), k,
                           patterns[k].keywords))

_check_patterns(t, patterns) ==
  CheckFrom(t, patterns, 1, [confidence |-> 0, pattern |-> 0, keywords |-> <<>>])

\* The end of classify_intent: the answer when no command pattern is clear.
EducationalIntent(educational_result) ==
  IF educational_result.confidence > Conf(5)
    THEN [intent |-> "educational", confidence |-> educational_result.confidence,
          matched_pattern |-> educational_result.pattern,
          keywords |-> educational_result.keywords]
    ELSE [intent |-> "educational", confidence |-> Conf(5),
          matched_pattern |-> 0, keywords |-> <<>>]

\* classify_intent on the lower-cased, trimmed text: the command patterns
\* are checked first.
Intent(text_lower, command_result) ==
  IF command_result.confidence > Conf(6)
    THEN [intent |-> "command", confidence |-> command_result.confidence,
          matched_pattern |-> command_result.pattern,
          keywords |-> command_result.keywords]
    ELSE EducationalIntent(_check_patterns(text_lower, educational_patterns))

IntentOf(text_lower) == Intent(text_lower, _check_patterns(text_lower, command_patterns))

\* classify_intent
classify_intent(text) == IntentOf(Strip(Lower(text)))

\* get_command_type; "None" stands for None.
get_command_type(text) ==
  LET text_lower == Lower(text)
      camera ==
        IF ~ContainsAny(text_lower, {"camera", "cam"}) THEN "None"
        ELSE IF ContainsAny(text_lower, {"on", "start", "open", "activate"}) THEN "camera_on"
        ELSE IF ContainsAny(text_lower, {"off", "stop", "close", "deactivate"}) THEN "camera_off"
        ELSE IF ContainsAny(text_lower, {"take", "capture", "photo", "picture"}) THEN "take_photo"
        ELSE "None"
  IN  IF camera # "None" THEN camera
      ELSE IF ContainsAny(text_lower, {"add", "plus", "+"}) THEN "math_addition"
      ELSE IF ContainsAny(text_lower, {"subtract", "minus", "-"}) THEN "math_subtraction"
      ELSE IF ContainsAny(text_lower, {"multiply", "times", "*"}) THEN "math_multiplication"
      ELSE IF ContainsAny(text_lower, {"divide", "/"}) THEN "math_division"
      ELSE IF (Contains(text_lower, "draw") \/ Contains(text_lower, "show"))
              /\ Contains(text_lower, "apple") THEN "draw_apple"
      ELSE IF (Contains(text_lower, "draw") \/ Contains(text_lower, "show"))
              /\ Contains(text_lower, "circle") THEN "draw_circle"
      ELSE IF ContainsAny(text_lower, {"clear", "clean", "erase", "reset"}) THEN "clear_board"
      ELSE IF Contains(text_lower, "timer") THEN "set_timer"
      ELSE IF Contains(text_lower, "weather") \/ Contains(text_lower, "temperature")
        THEN "get_weather"
      ELSE "None"

\* The utterances the requests are drawn from.  What the classifier makes
\* of a text depends on the text alone, so it is worked out once for each
\* utterance.
Utterances ==
  {"turn on the camera", "stop the camera", "deactivate camera", "disable the cam",
   "take a photo", "Add 2 and 3", "divide 4 by 0", "draw an apple",
   "weather in paris", "clear the board", "set a timer for 5 minutes",
   "explain gravity", "hello", "help with my homework"}

Classified == [u \in Utterances |-> classify_intent(Chars(u))]

CommandType == [u \in Utterances |-> get_command_type(Chars(u))]

\* Python's None, and a value that is present.
None == <<>>

Some(x) == <<x>>

\* The cleaned remainder of the text after the first match of an indicator
\* such as "explain (.+)": group(1).strip() without its characters other
\* than letters and white space.
IndicatorTopic(t, indicator) ==
  LET w == Chars(indicator)
      starts == {i \in 1..Len(t) : LitAt(t, i, w) /\ i + Len(w) <= Len(t)}
  IN  IF starts = {} THEN None
      ELSE LET first == CHOOSE i \in starts : \A j \in starts : i <= j
               extracted == Strip(SubSeq(t, first + Len(w), Len(t)))
               cleaned == SelectSeq(extracted, LAMBDA c : IsAlpha(c) \/ IsSpace(c))
           IN  IF Len(cleaned) > 2 /\ Len(cleaned) < 50 THEN Some(cleaned) ELSE None

\* The strings extract_topic can cut out of the utterances of the model.
ExtractedTopics == {"my homework"}

\* The string with the given characters.
StrOf(cs) == CHOOSE s \in ExtractedTopics : Chars(s) = cs

topic_indicators ==
  <<"learn about ", "help with ", "explain ", "teach me ", "study ", "understand ">>

\* extract_topic: None, or Some(topic).
extract_topic(text) ==
  LET t == Lower(text)
      found == {k \in 1..Len(topic_indicators) : IndicatorTopic(t, topic_indicators[k]) # None}
  IN  IF ContainsAny(t, {"math", "mathematics", "arithmetic", "algebra", "geometry",
                         "add", "subtract", "multiply", "divide", "plus", "minus", "times",
                         "equation", "problem", "calculate", "solve", "number",
                         "fraction", "decimal", "percent", "ratio"}) THEN Some("math")
      ELSE IF ContainsAny(t, {"science", "physics", "chemistry", "biology",
                              "experiment", "hypothesis", "theory", "law",
                              "atom", "molecule", "element", "compound",
                              "gravity", "force", "energy", "motion"}) THEN Some("science")
      ELSE IF ContainsAny(t, {"reading", "literature", "story", "book", "poem",
                              "character", "plot", "theme", "setting",
                              "comprehension", "vocabulary", "spelling"}) THEN Some("reading")
      ELSE IF ContainsAny(t, {"writing", "essay", "paragraph", "sentence",
                              "grammar", "punctuation", "spelling",
                              "creative writing", "story", "report"}) THEN Some("writing")
      ELSE IF ContainsAny(t, {"history", "historical", "ancient", "medieval", "modern",
                              "war", "battle", "revolution", "empire", "civilization",
                              "president", "king", "queen", "leader", "government"})
        THEN Some("history")
      ELSE IF ContainsAny(t, {"geography", "country", "continent", "city", "state",
                              "mountain", "river", "ocean", "desert", "forest",
                              "capital", "population", "climate", "weather"})
        THEN Some("geography")
      ELSE IF found = {} THEN None
      ELSE LET k == CHOOSE i \in found : \A j \in found : i <= j
           IN  Some(StrOf(IndicatorTopic(t, topic_indicators[k])[1]))

ExtractedTopic == [u \in Utterances |-> extract_topic(Chars(u))]

\* ------------------------------------------------------------------------
\* LearningTracker (backend/learning_tracker.py)
\*
\* A tracker is the record of its two fields and its three files; a method
\* is an operator from the tracker before the call (and the clock reading
\* `t`, in minutes) to the tracker after it.  A file that does not exist is
\* None.  A datetime is a clock reading n; its isoformat() text is
\* <<"iso", n>>.
\* ------------------------------------------------------------------------

VARIABLES
  current_session,      \* LearningTracker.current_session
  student_profile,      \* LearningTracker.student_profile
  profile_file,         \* student_profile.json
  sessions_file,        \* sessions.json
  temp_progress_file,   \* temp_progress.json
  now,                  \* the clock behind time.time() and datetime.now()
  reply,                \* what the last request or query returned
  ended,                \* history: the sessions ended since sessions.json was last empty
  startup               \* history: the session count loaded when the process started
                        \* and the sessions ended since, kept until progress is reset

vars == <<current_session, student_profile, profile_file, sessions_file,
          temp_progress_file, now, reply, ended, startup>>

isoformat(n) == <<"iso", n>>

fromisoformat(x) == x[2]

\* Keep only last 50 sessions
SessionsKept == 50

LearningSession(t) ==
  [session_id |-> t, start_time |-> t, end_time |-> None,
   topics_covered |-> <<>>, interactions |-> <<>>,
   performance_metrics |-> [questions_asked |-> 0, correct_answers |-> 0,
                            incorrect_answers |-> 0, hints_used |-> 0,
                            topics_explored |-> 0],
   emotion_data |-> <<>>]

\* _create_default_profile
DefaultProfile(t) ==
  [student_id |-> t, name |-> None, grade_level |-> None, learning_style |-> "visual",
   topics |-> <<>>, total_sessions |-> 0, total_learning_time |-> 0,
   strengths |-> <<>>, areas_for_improvement |-> <<>>]

TopicProgress(topic, t) ==
  [topic_name |-> topic, knowledge_level |-> "unknown",
   first_encountered |-> t, last_studied |-> t, total_time_spent |-> 0,
   correct_answers |-> 0, incorrect_answers |-> 0,
   concepts_mastered |-> <<>>, struggling_areas |-> <<>>]

\* `x in list`, list.remove(x) and the position of a key of the topics dict
\* (a dict keeps its keys in insertion order: topics is the sequence of its
\* values, each holding its key as topic_name).
InList(x, list) == \E k \in 1..Len(list) : list[k] = x

Remove(list, x) ==
  LET first == CHOOSE k \in 1..Len(list) : list[k] = x /\ \A j \in 1..(k - 1) : list[j] # x
  IN  SubSeq(list, 1, first - 1) \o SubSeq(list, first + 1, Len(list))

HasTopic(profile, topic) == \E k \in 1..Len(profile.topics) : profile.topics[k].topic_name = topic

TopicIndex(profile, topic) == CHOOSE k \in 1..Len(profile.topics) : profile.topics[k].topic_name = topic

\* The profile the method works on after `if not self.student_profile:
\* self._create_default_profile()`.
EnsureProfile(tr, t) ==
  IF tr.student_profile = None THEN DefaultProfile(t) ELSE tr.student_profile[1]

\* _create_topic_progress, on a profile that lacks the topic
_create_topic_progress(profile, topic, t) ==
  [profile EXCEPT !.topics = Append(@, TopicProgress(topic, t))]

EnsureTopic(profile, topic, t) ==
  IF HasTopic(profile, topic) THEN profile ELSE _create_topic_progress(profile, topic, t)

\* A save that writes student_profile.json only when there is no such file
\* yet, as opening the file for exclusive creation would.
_save_student_profile_once(tr) ==
  IF tr.student_profile = None \/ tr.profile_file # None THEN tr
  ELSE [tr EXCEPT !.profile_file =
          Some([tr.student_profile[1] EXCEPT !.topics =
                  [k \in 1..Len(tr.student_profile[1].topics) |->
                     [tr.student_profile[1].topics[k] EXCEPT
                        !.first_encountered = isoformat(@),
                        !.last_studied = isoformat(@)]]])]

\* _save_student_profile writes asdict(profile) with its datetimes as text.
ProfileJson(profile) ==
  [profile EXCEPT !.topics =
     [k \in 1..Len(profile.topics) |->
        [profile.topics[k] EXCEPT !.first_encountered = isoformat(@),
                                  !.last_studied = isoformat(@)]]]

_save_student_profile(tr) ==
  IF tr.student_profile = None THEN tr
  ELSE [tr EXCEPT !.profile_file = Some(ProfileJson(tr.student_profile[1]))]

\* _load_student_profile: the profile read back from student_profile.json.
ProfileFromJson(data) ==
  [data EXCEPT !.topics =
     [k \in 1..Len(data.topics) |->
        [data.topics[k] EXCEPT !.first_encountered = fromisoformat(@),
                               !.last_studied = fromisoformat(@)]]]

_load_student_profile(tr) ==
  IF tr.profile_file = None THEN tr
  ELSE [tr EXCEPT !.student_profile = Some(ProfileFromJson(tr.profile_file[1]))]

\* _save_session_data
SessionJson(session) ==
  [session EXCEPT !.start_time = isoformat(@),
                  !.end_time = IF @ = None THEN None ELSE Some(isoformat(@[1]))]

\* A cut of the log that keeps the first 50 sessions, as sessions[:50] would.
FirstSessions(sessions) ==
  IF Len(sessions) <= SessionsKept THEN sessions
  ELSE SubSeq(sessions, 1, SessionsKept)

LastSessions(sessions) ==
  IF Len(sessions) <= SessionsKept THEN sessions
  ELSE SubSeq(sessions, Len(sessions) - SessionsKept + 1, Len(sessions))

_save_session_data(tr) ==
  IF tr.current_session = None THEN tr
  ELSE LET sessions == IF tr.sessions_file = None THEN <<>> ELSE tr.sessions_file[1]
       IN  [tr EXCEPT !.sessions_file =
              Some(LastSessions(Append(sessions, SessionJson(tr.current_session[1]))))]

\* _load_temp_progress: {} when the file does not exist.  A key the dict
\* lacks is None.
EmptyTemp == [current_session |-> None, learning_objectives |-> None]

_load_temp_progress(tr) ==
  IF tr.temp_progress_file = None THEN EmptyTemp ELSE tr.temp_progress_file[1]

_save_temp_progress_data(tr, data) == [tr EXCEPT !.temp_progress_file = Some(data)]

_save_temp_progress(tr) ==
  LET temp_data == _load_temp_progress(tr)
      session == tr.current_session[1]
  IN  _save_temp_progress_data(tr,
        IF tr.current_session = None THEN temp_data
        ELSE [temp_data EXCEPT !.current_session =
                Some([session_id |-> session.session_id,
                      start_time |-> isoformat(session.start_time),
                      topics_covered |-> session.topics_covered,
                      performance |-> session.performance_metrics])])

\* _extract_topic_from_interaction: None, or Some(topic)
_extract_topic_from_interaction(text) ==
  LET text_lower == Lower(text)
  IN  IF ContainsAny(text_lower, {"math", "add", "subtract", "multiply", "divide",
                                  "number", "calculate"}) THEN Some("math")
      ELSE IF ContainsAny(text_lower, {"read", "story", "book", "text", "comprehension"})
        THEN Some("reading")
      ELSE IF ContainsAny(text_lower, {"science", "experiment", "hypothesis", "theory"})
        THEN Some("science")
      ELSE IF ContainsAny(text_lower, {"write", "essay", "paragraph", "grammar"})
        THEN Some("writing")
      ELSE None

InteractionTopic == [u \in Utterances |-> _extract_topic_from_interaction(Chars(u))]

\* start_new_session
start_new_session(tr, t) == [tr EXCEPT !.current_session = Some(LearningSession(t))]

\* An end of session that starts the profile's mastery state afresh: the
\* counters of the topics at 0, and no strengths or areas for improvement.
SessionEndedFresh(profile, session, t) ==
  [profile EXCEPT
     !.total_sessions = @ + 1,
     !.total_learning_time = @ + (t - session.start_time),
     !.strengths = <<>>,
     !.areas_for_improvement = <<>>,
     !.topics = [k \in 1..Len(profile.topics) |->
                   [profile.topics[k] EXCEPT !.correct_answers = 0,
                                             !.incorrect_answers = 0,
                                             !.last_studied = t]]]

\* end_current_session
SessionEnded(profile, session, t) ==
  LET duration == t - session.start_time
      covered == session.topics_covered
  IN  [profile EXCEPT
         !.total_sessions = @ + 1,
         !.total_learning_time = @ + duration,
         !.topics = [k \in 1..Len(profile.topics) |->
                       IF InList(profile.topics[k].topic_name, covered)
                         THEN [profile.topics[k] EXCEPT
                                 !.last_studied = t,
                                 !.total_time_spent = @ + (duration \div Len(covered))]
                         ELSE profile.topics[k]]]

\* An end of session that saves the session and leaves it the current one.
end_current_session_kept(tr, t) ==
  IF tr.current_session = None THEN tr
  ELSE _save_student_profile(_save_session_data(
         [tr EXCEPT
            !.current_session = Some([tr.current_session[1] EXCEPT !.end_time = Some(t)]),
            !.student_profile =
               IF @ = None THEN None
               ELSE Some(SessionEnded(@[1], [tr.current_session[1] EXCEPT
                                                !.end_time = Some(t)], t))]))

end_current_session(tr, t) ==
  IF tr.current_session = None THEN tr
  ELSE LET session == [tr.current_session[1] EXCEPT !.end_time = Some(t)]
           tr1 == [tr EXCEPT
                     !.current_session = Some(session),
                     !.student_profile =
                        IF @ = None THEN None ELSE Some(SessionEnded(@[1], session, t))]
           tr2 == _save_student_profile(_save_session_data(tr1))
       IN  [tr2 EXCEPT !.current_session = None]

\* A log_interaction that also writes the session to sessions.json.
log_interaction_flushed(tr, t, interaction_type, input_text) ==
  LET tr1 == IF tr.current_session = None THEN start_new_session(tr, t) ELSE tr
      interaction == [timestamp |-> isoformat(t), type |-> interaction_type,
                      input |-> input_text, success |-> TRUE]
  IN  _save_session_data(
        [tr1 EXCEPT !.current_session[1].interactions = Append(@, interaction),
                    !.current_session[1].performance_metrics.questions_asked = @ + 1])

\* log_interaction of an input text in which
\* _extract_topic_from_interaction finds the given topic.
LoggedInteraction(tr, t, interaction_type, input_text, topic) ==
  LET tr1 == IF tr.current_session = None THEN start_new_session(tr, t) ELSE tr
      session == tr1.current_session[1]
      interaction == [timestamp |-> isoformat(t), type |-> interaction_type,
                      input |-> input_text, success |-> TRUE]
      logged == [session EXCEPT !.interactions = Append(@, interaction),
                                !.performance_metrics.questions_asked = @ + 1]
  IN  [tr1 EXCEPT !.current_session =
         Some(IF topic # None /\ ~InList(topic[1], logged.topics_covered)
                THEN [logged EXCEPT !.topics_covered = Append(@, topic[1]),
                                    !.performance_metrics.topics_explored = @ + 1]
                ELSE logged)]

\* log_interaction
log_interaction(tr, t, interaction_type, input_text) ==
  LoggedInteraction(tr, t, interaction_type, input_text, InteractionTopic[input_text])

\* A log_answer_result that adds a topic to one list and leaves it in the
\* other.
AnswerCountedKept(profile, topic, is_correct) ==
  LET k == TopicIndex(profile, topic)
      p == profile.topics[k]
      correct == IF is_correct THEN p.correct_answers + 1 ELSE p.correct_answers
      incorrect == IF is_correct THEN p.incorrect_answers ELSE p.incorrect_answers + 1
      total_attempts == correct + incorrect
      counted == [profile EXCEPT !.topics[k].correct_answers = correct,
                                 !.topics[k].incorrect_answers = incorrect]
  IN  IF is_correct
        THEN IF correct >= 3 /\ 4 * correct >= 3 * total_attempts
                /\ ~InList(topic, profile.strengths)
               THEN [counted EXCEPT !.strengths = Append(@, topic)]
               ELSE counted
        ELSE IF total_attempts >= 3 /\ 2 * correct < total_attempts
                /\ ~InList(topic, profile.areas_for_improvement)
               THEN [counted EXCEPT !.areas_for_improvement = Append(@, topic)]
               ELSE counted

\* log_answer_result: the profile after the answer is counted.  The
\* accuracy c / (c + i) is compared as a fraction: c / n >= 0.75 is
\* 4c >= 3n, and c / n < 0.5 is 2c < n.
AnswerCounted(profile, topic, is_correct) ==
  LET k == TopicIndex(profile, topic)
      p == profile.topics[k]
      correct == IF is_correct THEN p.correct_answers + 1 ELSE p.correct_answers
      incorrect == IF is_correct THEN p.incorrect_answers ELSE p.incorrect_answers + 1
      total_attempts == correct + incorrect
      counted == [profile EXCEPT !.topics[k].correct_answers = correct,
                                 !.topics[k].incorrect_answers = incorrect]
  IN  IF is_correct
        THEN IF correct >= 3 /\ 4 * correct >= 3 * total_attempts
                /\ ~InList(topic, profile.strengths)
               THEN [counted EXCEPT
                       !.strengths = Append(@, topic),
                       !.areas_for_improvement = IF InList(topic, @) THEN Remove(@, topic) ELSE @]
               ELSE counted
        ELSE IF total_attempts >= 3 /\ 2 * correct < total_attempts
                /\ ~InList(topic, profile.areas_for_improvement)
               THEN [counted EXCEPT
                       !.areas_for_improvement = Append(@, topic),
                       !.strengths = IF InList(topic, @) THEN Remove(@, topic) ELSE @]
               ELSE counted

log_answer_result(tr, t, topic, is_correct) ==
  IF tr.current_session = None THEN tr
  ELSE LET session == tr.current_session[1]
           scored == IF is_correct
                       THEN [session EXCEPT !.performance_metrics.correct_answers = @ + 1]
                       ELSE [session EXCEPT !.performance_metrics.incorrect_answers = @ + 1]
           profile == EnsureTopic(EnsureProfile(tr, t), topic, t)
           tr1 == [tr EXCEPT !.current_session = Some(scored),
                             !.student_profile = Some(AnswerCounted(profile, topic, is_correct))]
       IN  _save_student_profile(_save_temp_progress(tr1))

\* mark_topic_encountered
mark_topic_encountered(tr, t, topic) ==
  _save_student_profile(
    [tr EXCEPT !.student_profile = Some(EnsureTopic(EnsureProfile(tr, t), topic, t))])

\* has_assessed_topic
has_assessed_topic(tr, topic) ==
  IF tr.student_profile = None \/ ~HasTopic(tr.student_profile[1], topic) THEN FALSE
  ELSE LET p == tr.student_profile[1].topics[TopicIndex(tr.student_profile[1], topic)]
       IN  p.correct_answers + p.incorrect_answers >= 2

\* A table of levels whose thresholds are strict: accuracy > 0.8 and
\* accuracy > 0.6.
KnowledgeLevelStrict(correct_answers, total_answers) ==
  IF 5 * correct_answers > 4 * total_answers /\ total_answers >= 5 THEN "advanced"
  ELSE IF 5 * correct_answers > 3 * total_answers /\ total_answers >= 3 THEN "intermediate"
  ELSE "beginner"

\* The level get_topic_knowledge derives: accuracy >= 0.8 is 5c >= 4n and
\* accuracy >= 0.6 is 5c >= 3n.
KnowledgeLevel(correct_answers, total_answers) ==
  IF 5 * correct_answers >= 4 * total_answers /\ total_answers >= 5 THEN "advanced"
  ELSE IF 5 * correct_answers >= 3 * total_answers /\ total_answers >= 3 THEN "intermediate"
  ELSE "beginner"

\* get_topic_knowledge: None, or Some(dict)
get_topic_knowledge(tr, topic) ==
  IF tr.student_profile = None \/ ~HasTopic(tr.student_profile[1], topic) THEN None
  ELSE LET p == tr.student_profile[1].topics[TopicIndex(tr.student_profile[1], topic)]
           total_answers == p.correct_answers + p.incorrect_answers
       IN  IF total_answers = 0
             THEN Some([level |-> "unknown", needs_assessment |-> TRUE])
             ELSE Some([level |-> KnowledgeLevel(p.correct_answers, total_answers),
                        needs_assessment |-> FALSE])

\* get_topic_performance: None, or Some(dict)
get_topic_performance(tr, topic) ==
  IF tr.student_profile = None \/ ~HasTopic(tr.student_profile[1], topic) THEN None
  ELSE LET p == tr.student_profile[1].topics[TopicIndex(tr.student_profile[1], topic)]
       IN  Some([correct_answers |-> p.correct_answers,
                 incorrect_answers |-> p.incorrect_answers,
                 total_time |-> p.total_time_spent,
                 last_studied |-> isoformat(p.last_studied)])

\* get_current_progress; last_topic is the first topic of the latest
\* last_studied, "" when there is none.
get_current_progress(tr, t) ==
  IF tr.student_profile = None
    THEN [total_sessions |-> 0, completed_topics |-> 0, session_duration |-> 0,
          struggling_areas |-> <<>>, last_topic |-> "", learning_time |-> 0,
          strengths |-> <<>>]
  ELSE LET profile == tr.student_profile[1]
           latest == {k \in 1..Len(profile.topics) :
                        /\ \A j \in 1..Len(profile.topics) :
                             profile.topics[j].last_studied <= profile.topics[k].last_studied
                        /\ \A j \in 1..(k - 1) :
                             profile.topics[j].last_studied < profile.topics[k].last_studied}
       IN  [total_sessions |-> profile.total_sessions,
            completed_topics |-> Len(profile.topics),
            session_duration |-> IF tr.current_session = None THEN 0
                                 ELSE t - tr.current_session[1].start_time,
            struggling_areas |-> profile.areas_for_improvement,
            last_topic |-> IF latest = {} THEN ""
                           ELSE profile.topics[CHOOSE k \in latest : TRUE].topic_name,
            learning_time |-> profile.total_learning_time,
            strengths |-> profile.strengths]

\* save_learning_objective
save_learning_objective(tr, t, topic, objective, difficulty) ==
  LET temp_data == _load_temp_progress(tr)
      objectives == IF temp_data.learning_objectives = None THEN <<>>
                    ELSE temp_data.learning_objectives[1]
      objective_data == [topic |-> topic, objective |-> objective,
                         difficulty |-> difficulty, created_at |-> isoformat(t),
                         completed |-> FALSE, completed_at |-> None]
  IN  _save_temp_progress_data(tr,
        [temp_data EXCEPT !.learning_objectives = Some(Append(objectives, objective_data))])

\* mark_objective_completed: the first objective of that text is completed.
mark_objective_completed(tr, t, objective) ==
  LET temp_data == _load_temp_progress(tr)
      objectives == IF temp_data.learning_objectives = None THEN <<>>
                    ELSE temp_data.learning_objectives[1]
      hits == {k \in 1..Len(objectives) : objectives[k].objective = objective}
      first == CHOOSE k \in hits : \A j \in hits : k <= j
  IN  _save_temp_progress_data(tr,
        IF hits = {} THEN temp_data
        ELSE [temp_data EXCEPT !.learning_objectives =
                Some([objectives EXCEPT ![first].completed = TRUE,
                                        ![first].completed_at = Some(isoformat(t))])])

\* reset_progress
reset_progress(tr) ==
  [current_session |-> None, student_profile |-> None, profile_file |-> None,
   sessions_file |-> None, temp_progress_file |-> None]

\* LearningTracker.__init__ on the data directory the files are in
NewTracker(tr) ==
  _load_student_profile([tr EXCEPT !.current_session = None, !.student_profile = None])

\* ------------------------------------------------------------------------
\* MathCommands (backend/commands/math_commands.py)
\* ------------------------------------------------------------------------

\* The end of the run of digits that starts at position i (i itself when
\* there is no digit there).
RECURSIVE DigitsEnd(_, _)
DigitsEnd(t, i) == IF i <= Len(t) /\ IsDigit(t[i]) THEN DigitsEnd(t, i + 1) ELSE i

\* re.findall(r'-?\d+\.?\d*', text): the matches from position i on, left
\* to right, none overlapping another.
RECURSIVE FindNumbers(_, _)
FindNumbers(t, i) ==
  IF i > Len(t) THEN <<>>
  ELSE LET first == IF t[i] = "-" THEN i + 1 ELSE i
           whole == DigitsEnd(t, first)
           dot == IF whole <= Len(t) /\ t[whole] = "." THEN whole + 1 ELSE whole
           last == DigitsEnd(t, dot)
       IN  IF whole > first
             THEN <<SubSeq(t, i, last - 1)>> \o FindNumbers(t, last)
             ELSE FindNumbers(t, i + 1)

DigitValue(c) ==
  CASE c = "0" -> 0 [] c = "1" -> 1 [] c = "2" -> 2 [] c = "3" -> 3 [] c = "4" -> 4
    [] c = "5" -> 5 [] c = "6" -> 6 [] c = "7" -> 7 [] c = "8" -> 8 [] c = "9" -> 9

RECURSIVE NaturalOf(_)
NaturalOf(ds) ==
  IF ds = <<>> THEN 0 ELSE 10 * NaturalOf(SubSeq(ds, 1, Len(ds) - 1)) + DigitValue(ds[Len(ds)])

RECURSIVE PowerOfTen(_)
PowerOfTen(k) == IF k = 0 THEN 1 ELSE 10 * PowerOfTen(k - 1)

\* int(match) or float(match) as the fraction num / den; a float is taken
\* for the decimal fraction its text writes.
NumberOf(match) ==
  LET negative == match[1] = "-"
      body == IF negative THEN SubSeq(match, 2, Len(match)) ELSE match
      digits == SelectSeq(body, IsDigit)
      dots == {k \in 1..Len(body) : body[k] = "."}
      decimals == IF dots = {} THEN 0 ELSE Len(body) - (CHOOSE k \in dots : TRUE)
  IN  [num |-> IF negative THEN 0 - NaturalOf(digits) ELSE NaturalOf(digits),
       den |-> PowerOfTen(decimals)]

\* _extract_numbers
_extract_numbers(text) ==
  LET matches == FindNumbers(text, 1)
  IN  [k \in 1..Len(matches) |-> NumberOf(matches[k])]

\* The four results, as fractions num / den with den > 0.
RECURSIVE Sum(_)
Sum(numbers) ==
  IF Len(numbers) = 1 THEN numbers[1]
  ELSE LET a == Sum(SubSeq(numbers, 1, Len(numbers) - 1))
           b == numbers[Len(numbers)]
       IN  [num |-> a.num * b.den + b.num * a.den, den |-> a.den * b.den]

RECURSIVE Difference(_)
Difference(numbers) ==
  IF Len(numbers) = 1 THEN numbers[1]
  ELSE LET a == Difference(SubSeq(numbers, 1, Len(numbers) - 1))
           b == numbers[Len(numbers)]
       IN  [num |-> a.num * b.den - b.num * a.den, den |-> a.den * b.den]

RECURSIVE Product(_)
Product(numbers) ==
  IF Len(numbers) = 1 THEN numbers[1]
  ELSE LET a == Product(SubSeq(numbers, 1, Len(numbers) - 1))
           b == numbers[Len(numbers)]
       IN  [num |-> a.num * b.num, den |-> a.den * b.den]

RECURSIVE Quotient(_)
Quotient(numbers) ==
  IF Len(numbers) = 1 THEN numbers[1]
  ELSE LET a == Quotient(SubSeq(numbers, 1, Len(numbers) - 1))
           b == numbers[Len(numbers)]
       IN  IF b.num > 0 THEN [num |-> a.num * b.den, den |-> a.den * b.num]
           ELSE [num |-> 0 - a.num * b.den, den |-> 0 - a.den * b.num]

\* str(n) of an int n: its decimal text.
RECURSIVE NaturalText(_)
NaturalText(n) ==
  IF n < 10 THEN <<<<"0", "1", "2", "3", "4", "5", "6", "7", "8", "9">>[n + 1]>>
  ELSE NaturalText(n \div 10)
         \o <<<<"0", "1", "2", "3", "4", "5", "6", "7", "8", "9">>[(n % 10) + 1]>>

DecimalText(n) == IF n < 0 THEN <<"-">> \o NaturalText(0 - n) ELSE NaturalText(n)

\* round(x, 2) of the fraction x, in hundredths: the nearest, and the even
\* one of two equally near.
Hundredths(x) ==
  LET twice == (200 * x.num) \div x.den
      exact == (200 * x.num) % x.den = 0
  IN  IF twice % 2 = 0 THEN twice \div 2
      ELSE IF ~exact THEN (twice + 1) \div 2
      ELSE IF ((twice - 1) \div 2) % 2 = 0 THEN (twice - 1) \div 2
      ELSE (twice + 1) \div 2

\* correct_value: str(int(result) if result == int(result) else result),
\* and for a division str(result) of the quotient rounded to two places.
\* The text of a float that is no integer is <<"float", hundredths>> for a
\* rounded quotient and <<"float", num, den>> otherwise.
CorrectValue(command_type, result) ==
  IF result.num % result.den = 0 THEN DecimalText(result.num \div result.den)
  ELSE IF command_type = "math_division" THEN <<"float", Hundredths(result)>>
  ELSE <<"float", result.num, result.den>>

\* The answer of a math command that is computed.
MathSolved(command_type, result) ==
  [success |-> TRUE, result |-> Some(result), logs |-> command_type,
   scene |-> "scene",
   final_answer |-> Some([correct_value |-> CorrectValue(command_type, result)])]

\* A MathCommands.execute that divides without looking for a divisor of 0,
\* and answers a division by 0 with 0.
MathExecuteUnguarded(command_type, text) ==
  LET numbers == _extract_numbers(text)
      failed == [success |-> FALSE, result |-> None, logs |-> "None",
                 scene |-> "[]", final_answer |-> None]
  IN  IF command_type \notin {"math_addition", "math_subtraction",
                              "math_multiplication", "math_division"} THEN failed
      ELSE IF Len(numbers) < 2 THEN failed
      ELSE IF command_type = "math_division"
              /\ \E k \in 2..Len(numbers) : numbers[k].num = 0
        THEN MathSolved(command_type, [num |-> 0, den |-> 1])
      ELSE MathSolved(command_type,
                      CASE command_type = "math_addition" -> Sum(numbers)
                        [] command_type = "math_subtraction" -> Difference(numbers)
                        [] command_type = "math_multiplication" -> Product(numbers)
                        [] command_type = "math_division" -> Quotient(numbers))

\* MathCommands.execute: whether the command succeeds, its result, scene
\* and final_answer, and the interaction type it logs.  "None" stands for
\* an unknown command type, "[]" for the empty scene and None for the empty
\* final_answer.
MathExecute(command_type, text) ==
  LET numbers == _extract_numbers(text)
      failed == [success |-> FALSE, result |-> None, logs |-> "None",
                 scene |-> "[]", final_answer |-> None]
  IN  IF command_type \notin {"math_addition", "math_subtraction",
                              "math_multiplication", "math_division"} THEN failed
      ELSE IF Len(numbers) < 2 THEN failed
      ELSE IF command_type = "math_division"
              /\ \E k \in 2..Len(numbers) : numbers[k].num = 0 THEN failed
      ELSE MathSolved(command_type,
                      CASE command_type = "math_addition" -> Sum(numbers)
                        [] command_type = "math_subtraction" -> Difference(numbers)
                        [] command_type = "math_multiplication" -> Product(numbers)
                        [] command_type = "math_division" -> Quotient(numbers))

\* The tracker after the math module has run on an input text in which
\* _extract_topic_from_interaction finds the given topic: a command that is
\* computed marks the topic math and logs the interaction.
MathTracked(tr, t, math, input_text, topic) ==
  IF math.success
    THEN LoggedInteraction(mark_topic_encountered(tr, t, "math"), t, math.logs,
                           input_text, topic)
    ELSE tr

MathResult == [u \in Utterances |-> MathExecute(CommandType[u], Chars(u))]

\* ------------------------------------------------------------------------
\* CommandExecutor (backend/commands/command__executor.py) and CoreAgent
\* (backend/core_agent.py)
\*
\* What the devices and services outside the program answer is an input of
\* the request: env.ok (the camera, board, timer or weather service does what
\* the command asks), env.raises (it raises an exception instead of
\* answering) and env.llm, the kind of text the language model returns
\* ("json": a JSON object, "text": any other text, an error text of
\* _query_llm included, "null": no text at all).
\* ------------------------------------------------------------------------

Env ==
  {env \in [ok : BOOLEAN, raises : BOOLEAN, llm : {"json", "text", "null"}] :
     env.raises => ~env.ok}

\* The routing of execute_command on the command type, math being the
\* outcome of MathCommands.execute.
Routed(tr, t, text, env, command_type, math) ==
  IF command_type = "None"
    THEN [tracker |-> tr, success |-> FALSE, command_type |-> command_type,
          response |-> "Could not determine command type", result |-> None]
  ELSE IF command_type \in {"math_addition", "math_subtraction",
                            "math_multiplication", "math_division"}
    THEN [tracker |-> MathTracked(tr, t, math, text, InteractionTopic[text]),
          success |-> math.success, command_type |-> command_type,
          response |-> IF math.success THEN "explanation" ELSE "failure",
          result |-> math.result]
  ELSE IF env.raises
    THEN [tracker |-> tr, success |-> FALSE, command_type |-> command_type,
          response |-> "Error executing command", result |-> None]
  ELSE [tracker |-> tr, success |-> env.ok, command_type |-> command_type,
        response |-> IF env.ok THEN "done" ELSE "failure", result |-> None]

\* execute_command: the tracker after it and its result.
execute_command(tr, t, text, env) ==
  Routed(tr, t, text, env, CommandType[text], MathResult[text])

\* A response is the record of what response.get(key) gives for the keys
\* the program reads ("None" where the dict lacks the key), and keys is the
\* set of the keys the dict has.

\* An error report of the shape of the web socket's error messages, without
\* a question and an answer.
_create_error_message(error_message) ==
  [keys |-> {"type", "data"},
   question |-> "", type |-> "error", error |-> TRUE,
   answer |-> [message |-> error_message],
   follow_up |-> "None"]

\* _create_error_response
_create_error_response(error_message) ==
  [keys |-> {"question", "answer", "error"},
   question |-> "", type |-> "None", error |-> TRUE,
   answer |-> [explanation |-> error_message, scene |-> "[]", final_answer |-> None],
   follow_up |-> "None"]

\* _process_ai_response
_process_ai_response(llm, original_text) ==
  IF llm = "null" THEN _create_error_response("Error processing AI response")
  ELSE [keys |-> IF llm = "json"
                   THEN {"question", "answer", "follow_up_question",
                         "knowledge_check", "type"}
                   ELSE {"question", "answer", "type"},
        question |-> original_text, type |-> "educational", error |-> FALSE,
        answer |-> [explanation |-> llm, scene |-> "[]", final_answer |-> None],
        follow_up |-> "None"]

\* The follow-up of _generate_follow_up for a topic and the performance
\* recorded on it.
FollowUp(llm, topic, performance) ==
  IF llm = "json" THEN "follow_up_question"
  ELSE IF topic = None THEN "What would you like to learn about next?"
  ELSE IF performance # None /\ performance[1].correct_answers >= 3
    THEN "Are you ready to try a more challenging problem?"
  ELSE IF performance # None /\ performance[1].incorrect_answers >= 2
    THEN "Would you like me to explain it differently?"
  ELSE "Do you have any questions?"

\* _generate_follow_up
_generate_follow_up(tr, llm, original_text) ==
  FollowUp(llm, ExtractedTopic[original_text],
           IF ExtractedTopic[original_text] = None THEN None
           ELSE get_topic_performance(tr, ExtractedTopic[original_text][1]))

\* "easy" if "kindergarten" in text.lower() or "first" in text.lower()
\* else "medium"
Difficulty ==
  [u \in Utterances |->
     IF Contains(Lower(Chars(u)), "kindergarten") \/ Contains(Lower(Chars(u)), "first")
       THEN "easy" ELSE "medium"]

\* _assess_knowledge_if_needed: a topic met for the first time is marked as
\* encountered.
_assess_knowledge_if_needed(tr, t, topic) ==
  IF topic # None /\ ~has_assessed_topic(tr, topic[1])
    THEN mark_topic_encountered(tr, t, topic[1])
    ELSE tr

\* The end of _handle_educational_query: the response built from the
\* model's text, with the follow-up added.  The calls record a query that
\* brought no text.
Answered(tr, text, env, calls) ==
  [tracker |-> tr,
   response |-> [_process_ai_response(env.llm, text) EXCEPT
                   !.follow_up = _generate_follow_up(tr, env.llm, text),
                   !.keys = @ \cup {"follow_up"}],
   calls |-> calls \o <<"_query_llm">>
                   \o (IF env.llm = "null" THEN <<"no text">> ELSE <<>>)
                   \o <<"log_interaction:educational">>]

\* The middle of _handle_educational_query: the interaction is logged, and
\* for a topic met for the first time a learning objective is set.
Queried(tr, t, text, env, calls, topic, new_topic) ==
  Answered(IF new_topic
             THEN save_learning_objective(log_interaction(tr, t, "educational", text),
                                          t, topic[1],
                                          <<"Learn basic concepts of", topic[1]>>,
                                          Difficulty[text])
             ELSE log_interaction(tr, t, "educational", text),
           text, env, calls)

\* _handle_educational_query: the tracker after it, the response and the
\* calls made, in order.
_handle_educational_query(tr, t, text, env, calls) ==
  Queried(_assess_knowledge_if_needed(tr, t, ExtractedTopic[text]), t, text, env, calls,
          ExtractedTopic[text],
          ExtractedTopic[text] # None /\ ~has_assessed_topic(tr, ExtractedTopic[text][1]))

\* An end of _handle_command that answers with the command response, and
\* logs the command, whatever the executor reported.
CommandedRegardless(command_result, t, text, env, calls) ==
  [tracker |-> log_interaction(command_result.tracker, t, "command", text),
   response |-> [keys |-> {"question", "answer", "type"},
                 question |-> text, type |-> "command", error |-> FALSE,
                 answer |-> [explanation |-> command_result.response,
                             scene |-> "scene",
                             final_answer |-> command_result.result],
                 follow_up |-> "None"],
   calls |-> calls \o <<IF command_result.success THEN "success" ELSE "failure",
                        "log_interaction:command">>]

\* The end of _handle_command: the answer of a command that succeeded, and
\* the educational path for one that failed.  The calls record what the
\* executor reported.
Commanded(command_result, t, text, env, calls) ==
  IF command_result.success
    THEN [tracker |-> log_interaction(command_result.tracker, t, "command", text),
          response |-> [keys |-> {"question", "answer", "type"},
                        question |-> text, type |-> "command", error |-> FALSE,
                        answer |-> [explanation |-> command_result.response,
                                    scene |-> "scene",
                                    final_answer |-> command_result.result],
                        follow_up |-> "None"],
          calls |-> calls \o <<"success", "log_interaction:command">>]
    ELSE _handle_educational_query(command_result.tracker, t, text, env,
                                   calls \o <<"failure">>)

\* _handle_command
_handle_command(tr, t, text, env, calls) ==
  Commanded(execute_command(tr, t, text, env), t, text, env,
            calls \o <<"execute_command">>)

\* A text that is no string, such as the null of a web socket message:
\* classify_intent raises on it (None has no lower()).
NonText == "<null>"

\* A process_text_input that takes the command path at confidence 0.7 too.
process_text_input_at_threshold(tr, t, text, env) ==
  IF text = NonText
    THEN [tracker |-> tr, calls |-> <<"classify_intent">>,
          response |-> _create_error_response("Error processing input")]
  ELSE IF Classified[text].intent = "command" /\ Classified[text].confidence >= Conf(7)
    THEN _handle_command(tr, t, text, env, <<"classify_intent">>)
    ELSE _handle_educational_query(tr, t, text, env, <<"classify_intent">>)

\* process_text_input: what classify_intent raises is caught, and answered
\* with the error response.
process_text_input(tr, t, text, env) ==
  IF text = NonText
    THEN [tracker |-> tr, calls |-> <<"classify_intent">>,
          response |-> _create_error_response("Error processing input")]
  ELSE IF Classified[text].intent = "command" /\ Classified[text].confidence > Conf(7)
    THEN _handle_command(tr, t, text, env, <<"classify_intent">>)
    ELSE _handle_educational_query(tr, t, text, env, <<"classify_intent">>)

\* ------------------------------------------------------------------------
\* The state machine: one action per request of main.py and per public
\* method of the tracker.
\* ------------------------------------------------------------------------

\* The learning tracker the process holds, and its files.
Tracker ==
  [current_session |-> current_session, student_profile |-> student_profile,
   profile_file |-> profile_file, sessions_file |-> sessions_file,
   temp_progress_file |-> temp_progress_file]

SetTracker(tr) ==
  /\ current_session' = tr.current_session
  /\ student_profile' = tr.student_profile
  /\ profile_file' = tr.profile_file
  /\ sessions_file' = tr.sessions_file
  /\ temp_progress_file' = tr.temp_progress_file

\* The topics and objectives the requests are drawn from.

Topics == {"math", "reading"}

Objectives == {<<"Learn basic concepts of", "math">>}

\* The bound of the model: the size a state may grow to.
MaxSize == 3

\* The state after LearningTracker() on an empty data directory.
Init ==
  /\ current_session = None
  /\ student_profile = None
  /\ profile_file = None
  /\ sessions_file = None
  /\ temp_progress_file = None
  /\ now = 0
  /\ reply = None
  /\ ended = <<>>
  /\ startup = [total_sessions |-> 0, ended |-> 0, reset |-> FALSE]

\* A minute passes.
Tick ==
  /\ now' = now + 1
  /\ UNCHANGED <<current_session, student_profile, profile_file, sessions_file,
                 temp_progress_file, reply, ended, startup>>

\* LearningTracker.start_new_session()
StartNewSession ==
  /\ SetTracker(start_new_session(Tracker, now))
  /\ reply' = None
  /\ UNCHANGED <<now, ended, startup>>

\* LearningTracker.end_current_session()
EndCurrentSession ==
  /\ SetTracker(end_current_session(Tracker, now))
  /\ ended' = IF current_session = None THEN ended
              ELSE Append(ended, SessionJson([current_session[1] EXCEPT !.end_time = Some(now)]))
  /\ startup' = IF current_session = None \/ startup.reset THEN startup
                ELSE [startup EXCEPT !.ended = @ + 1]
  /\ reply' = None
  /\ UNCHANGED now

\* LearningTracker.log_interaction(interaction_type, input_text, response)
LogInteraction(interaction_type, input_text) ==
  /\ SetTracker(log_interaction(Tracker, now, interaction_type, input_text))
  /\ reply' = None
  /\ UNCHANGED <<now, ended, startup>>

\* LearningTracker.mark_topic_encountered(topic)
MarkTopicEncountered(topic) ==
  /\ SetTracker(mark_topic_encountered(Tracker, now, topic))
  /\ reply' = None
  /\ UNCHANGED <<now, ended, startup>>

\* LearningTracker.save_learning_objective(topic, objective)
SaveLearningObjective(topic, objective) ==
  /\ SetTracker(save_learning_objective(Tracker, now, topic, objective, "medium"))
  /\ reply' = None
  /\ UNCHANGED <<now, ended, startup>>

\* LearningTracker.mark_objective_completed(objective)
MarkObjectiveCompleted(objective) ==
  /\ SetTracker(mark_objective_completed(Tracker, now, objective))
  /\ reply' = None
  /\ UNCHANGED <<now, ended, startup>>

\* LearningTracker.get_topic_knowledge(topic)
GetTopicKnowledge(topic) ==
  /\ reply' = Some([op |-> "get_topic_knowledge", topic |-> topic,
                    value |-> get_topic_knowledge(Tracker, topic)])
  /\ UNCHANGED <<current_session, student_profile, profile_file, sessions_file,
                 temp_progress_file, now, ended, startup>>

\* GET /learning/progress
GetLearningProgress ==
  /\ reply' = Some([op |-> "get_current_progress",
                    value |-> get_current_progress(Tracker, now)])
  /\ UNCHANGED <<current_session, student_profile, profile_file, sessions_file,
                 temp_progress_file, now, ended, startup>>

\* POST /learning/log_answer
LogAnswer(topic, is_correct) ==
  /\ SetTracker(log_answer_result(Tracker, now, topic, is_correct))
  /\ reply' = Some([op |-> "log_answer", topic |-> topic, is_correct |-> is_correct,
                    message |-> "Answer result logged successfully"])
  /\ UNCHANGED <<now, ended, startup>>

\* POST /learning/reset
ResetProgress ==
  /\ SetTracker(reset_progress(Tracker))
  /\ reply' = Some([op |-> "reset_progress", message |-> "Learning progress reset"])
  /\ ended' = <<>>
  /\ startup' = [total_sessions |-> 0, ended |-> 0, reset |-> TRUE]
  /\ UNCHANGED now

\* GET /greeting: the greeting is spoken and a session starts, unless the
\* speech cannot be generated.
Greeting(tts_ok) ==
  /\ SetTracker(IF tts_ok THEN start_new_session(Tracker, now) ELSE Tracker)
  /\ reply' = Some([op |-> "greeting", error |-> ~tts_ok,
                    returning |-> get_current_progress(Tracker, now).total_sessions # 0])
  /\ UNCHANGED <<now, ended, startup>>

\* POST /tutor/text
ProcessTextInput(text, env) ==
  \E out \in {process_text_input(Tracker, now, text, env)} :
    /\ SetTracker(out.tracker)
    /\ reply' = Some([op |-> "process_text_input", text |-> text,
                      calls |-> out.calls, response |-> out.response])
    /\ UNCHANGED <<now, ended, startup>>

\* The process is started again on the same data directory.
Restart ==
  /\ SetTracker(NewTracker(Tracker))
  /\ startup' = [total_sessions |-> IF profile_file = None THEN 0
                                    ELSE profile_file[1].total_sessions,
                 ended |-> 0, reset |-> FALSE]
  /\ reply' = None
  /\ UNCHANGED <<now, ended>>

\* The sizes the model keeps the state within.
TopicCount == IF student_profile = None THEN 0 ELSE Len(student_profile[1].topics)

RECURSIVE AnswersOf(_)
AnswersOf(topics) ==
  IF topics = <<>> THEN 0
  ELSE topics[1].correct_answers + topics[1].incorrect_answers + AnswersOf(Tail(topics))

AnswerCount == IF student_profile = None THEN 0 ELSE AnswersOf(student_profile[1].topics)

RECURSIVE InteractionsOf(_)
InteractionsOf(sessions) ==
  IF sessions = <<>> THEN 0
  ELSE Len(sessions[1].interactions) + InteractionsOf(Tail(sessions))

InteractionCount ==
  InteractionsOf(current_session) + InteractionsOf(ended)

ObjectiveCount ==
  IF temp_progress_file = None \/ temp_progress_file[1].learning_objectives = None THEN 0
  ELSE Len(temp_progress_file[1].learning_objectives[1])

\* The size of a state: the minutes passed, the sessions ended, and the
\* topics, answers, interactions and objectives recorded.
Size == now + Len(ended) + TopicCount + AnswerCount + InteractionCount + ObjectiveCount

Within == Size <= MaxSize

\* The texts of the interactions logged on the tracker directly: one that
\* names a topic and one that names none.
Texts == {"Add 2 and 3", "hello"}

\* The learning tracker under any sequence of calls of its public methods
\* and of the requests of main.py that go to it directly.
Next ==
  \/ Tick /\ Within'
  \/ StartNewSession /\ Within'
  \/ EndCurrentSession /\ Within'
  \/ \E u \in Texts : LogInteraction("assessment", u) /\ Within'
  \/ \E topic \in Topics : MarkTopicEncountered(topic) /\ Within'
  \/ \E objective \in Objectives :
       SaveLearningObjective(objective[2], objective) /\ Within'
  \/ \E objective \in Objectives : MarkObjectiveCompleted(objective) /\ Within'
  \/ \E topic \in Topics : GetTopicKnowledge(topic) /\ Within'
  \/ GetLearningProgress /\ Within'
  \/ \E topic \in Topics, is_correct \in BOOLEAN : LogAnswer(topic, is_correct) /\ Within'
  \/ ResetProgress /\ Within'
  \/ Restart /\ Within'

Spec == Init /\ [][Next]_vars

\* The texts of the requests to the core agent: every kind of command, the
\* commands the executor cannot carry out, and questions with and without a
\* topic.
Requests ==
  {"turn on the camera", "disable the cam", "take a photo", "Add 2 and 3",
   "divide 4 by 0", "draw an apple", "weather in paris", "clear the board",
   "set a timer for 5 minutes", "explain gravity", "help with my homework"}

\* The texts process_text_input is given: those of the requests, and the
\* text of a "text" message on the web socket that is no string.
Inputs == Requests \cup {NonText}

\* The requests of main.py that reach the core agent.
NextAgent ==
  \/ \E tts_ok \in BOOLEAN : Greeting(tts_ok) /\ Within'
  \/ \E u \in Inputs, env \in Env : ProcessTextInput(u, env) /\ Within'

SpecAgent == Init /\ [][NextAgent]_vars

\* The sessions log over many sessions.  The sessions follow one another
\* and each lasts a minute (the clock moves on once in a session, and a
\* session ends after it has), so that every session of the log differs
\* from the one before it.
MaxSessions == 52

NextSessions ==
  \/ /\ current_session # None
     /\ current_session[1].start_time = now
     /\ now < MaxSessions
     /\ Tick
  \/ /\ current_session = None
     /\ StartNewSession
  \/ /\ current_session # None => current_session[1].start_time < now
     /\ Len(ended) < MaxSessions
     /\ EndCurrentSession
  \/ ResetProgress

SpecSessions == Init /\ [][NextSessions]_vars

\* The answers of one session: up to MaxAnswers answers on the topics, and
\* the knowledge level asked for in between.
MaxAnswers == 6

NextAnswers ==
  \/ StartNewSession
  \/ \E topic \in Topics : MarkTopicEncountered(topic)
  \/ \E topic \in Topics, is_correct \in BOOLEAN :
       LogAnswer(topic, is_correct) /\ AnswerCount' <= MaxAnswers
  \/ \E topic \in Topics : GetTopicKnowledge(topic)

SpecAnswers == Init /\ [][NextAnswers]_vars

\* The words the texts given to the classifier are made of, and the most
\* words of a text; no text says a word twice.
Words ==
  {"turn on", "deactivate", "disable", "camera", "weather", "temperature",
   "explain", "Add 2 and 3"}

MaxWords == 3

Phrases ==
  {words \in UNION {[1..n -> Words] : n \in 1..MaxWords} :
     \A i, j \in 1..Len(words) : words[i] = words[j] => i = j}

\* The text of the words, a space between one and the next.
RECURSIVE Join(_)
Join(words) ==
  IF Len(words) = 1 THEN Chars(words[1])
  ELSE Chars(words[1]) \o <<" ">> \o Join(Tail(words))

\* IntentClassifier.classify_intent(text) and get_command_type(text), as
\* process_text_input and execute_command call them on the text of a
\* request.
ClassifyIntent(words) ==
  /\ reply = None
  /\ reply' = Some([op |-> "classify_intent", text |-> words,
                    intent_result |-> classify_intent(Join(words)),
                    command_type |-> get_command_type(Join(words))])
  /\ UNCHANGED <<current_session, student_profile, profile_file, sessions_file,
                 temp_progress_file, now, ended, startup>>

\* The classifier on every text of up to MaxWords words, each classified
\* for itself.
NextClassifier == \E words \in Phrases : ClassifyIntent(words)

SpecClassifier == Init /\ [][NextClassifier]_vars

\* The math commands on their own: one command is executed on the tracker
\* of a new agent.  Its text is a verb, or none, and then the numbers, each
\* two of them separated the same way.
MathVerbs == {"add", "subtract", "multiply", "divide", "None"}

Separators == {<<" ">>, Chars(" and "), Chars(" - "), <<"-">>, <<"+">>, <<"*">>, <<"/">>}

Numbers == {0, 2, 3, 12}

MaxTerms == 3

MathRequests ==
  [verb : MathVerbs, separator : Separators,
   numbers : UNION {[1..k -> Numbers] : k \in 0..MaxTerms}]

RECURSIVE Separated(_, _)
Separated(numbers, separator) ==
  IF numbers = <<>> THEN <<>>
  ELSE IF Len(numbers) = 1 THEN DecimalText(numbers[1])
  ELSE DecimalText(numbers[1]) \o separator \o Separated(Tail(numbers), separator)

MathText(request) ==
  IF request.verb = "None" THEN Separated(request.numbers, request.separator)
  ELSE Chars(request.verb) \o <<" ">> \o Separated(request.numbers, request.separator)

\* CommandExecutor.execute_command on a math command: the text, the command
\* type found in it and the result of MathCommands.execute are kept.
MathAnswered(request, text, command_type, math) ==
  /\ SetTracker(MathTracked(Tracker, now, math, text,
                            _extract_topic_from_interaction(text)))
  /\ reply' = Some([op |-> "execute_command", request |-> request, text |-> text,
                    command_type |-> command_type, result |-> math])
  /\ UNCHANGED <<now, ended, startup>>

MathTyped(request, text, command_type) ==
  MathAnswered(request, text, command_type, MathExecute(command_type, text))

MathCommand(request) ==
  /\ reply = None
  /\ MathTyped(request, MathText(request), get_command_type(MathText(request)))

NextMath == \E request \in MathRequests : MathCommand(request)

SpecMath == Init /\ [][NextMath]_vars

\* The answers of one session on their own: a session is started on the
\* empty profile and answers are logged.
MaxLogged == 12

NextMastery ==
  \/ current_session = None /\ StartNewSession
  \/ \E topic \in Topics, is_correct \in BOOLEAN :
       LogAnswer(topic, is_correct) /\ AnswerCount' <= MaxLogged

SpecMastery == Init /\ [][NextMastery]_vars

\* ------------------------------------------------------------------------
\* Properties
\* ------------------------------------------------------------------------

\* The last reply is that of a request to process_text_input.
Processed == reply # None /\ reply[1].op = "process_text_input"

\* The call was made.
Made(calls, call) == \E k \in 1..Len(calls) : calls[k] = call

\* The kinds a response is of.
KindsOf(response) ==
  {kind \in {"command", "educational", "error"} :
     IF kind = "error" THEN response.error
     ELSE ~response.error /\ response.type = kind}

\* C1: process_text_input answers every utterance with one response of
\* exactly one of three kinds: a command response, an educational response
\* or an error response.  A command response is built without a query to
\* the language model, and only when the classifier labelled the utterance
\* a command with a confidence above 0.7 and the executor reported success;
\* an educational response is built by the language-model path.
C1_OneResponseOfThreeKinds ==
  Processed =>
    LET response == reply[1].response
        calls == reply[1].calls
        text == reply[1].text
    IN  /\ Cardinality(KindsOf(response)) = 1
        /\ "command" \in KindsOf(response) =>
             /\ ~Made(calls, "_query_llm")
             /\ Made(calls, "execute_command")
             /\ Made(calls, "success")
             /\ Classified[text].intent = "command"
             /\ 10 * Classified[text].confidence > 7 * Conf(10)
        /\ "educational" \in KindsOf(response) => Made(calls, "_query_llm")

\* A math command was answered by a command response.
C1_CommandAnswered ==
  /\ Processed
  /\ reply[1].text = "Add 2 and 3"
  /\ reply[1].response.type = "command"
  /\ ~reply[1].response.error

\* C2: whenever classify_intent labels an utterance a command,
\* process_text_input runs the command executor on it before any query to
\* the language model.
C2_ExecutorBeforeModel ==
  (Processed /\ reply[1].text \in Utterances
            /\ Classified[reply[1].text].intent = "command") =>
    \E k \in 1..Len(reply[1].calls) :
      /\ reply[1].calls[k] = "execute_command"
      /\ \A j \in 1..(k - 1) : reply[1].calls[j] # "_query_llm"

\* The entries of sessions.json.
Logged == IF sessions_file = None THEN <<>> ELSE sessions_file[1]

\* C3: sessions.json holds at most 50 entries: the last min(n, 50) of the n
\* sessions ended since the log was last empty, in the order they ended in.
C3_LastFiftySessions ==
  LET n == Len(ended)
      kept == IF n < 50 THEN n ELSE 50
  IN  /\ Len(Logged) <= 50
      /\ Len(Logged) = kept
      /\ \A k \in 1..kept : Logged[k] = ended[n - kept + k]

\* More than 50 sessions have ended.
C3_LogCut == Len(ended) > 50 /\ sessions_file # None /\ current_session = None

\* C4: end_current_session with a session active appends the session, its
\* end_time set, as the newest entry of the sessions log and leaves no
\* session active; with no session active it changes neither the profile,
\* the log nor any file.
C4_EndAppendsSession ==
  [][EndCurrentSession =>
       IF current_session # None
         THEN /\ sessions_file' # None
              /\ Len(sessions_file'[1]) >= 1
              /\ LET new == sessions_file'[1]
                     entry == new[Len(new)]
                 IN  /\ entry.session_id = current_session[1].session_id
                     /\ entry.start_time = isoformat(current_session[1].start_time)
                     /\ entry.end_time = Some(isoformat(now))
                     /\ entry.interactions = current_session[1].interactions
                     /\ entry.topics_covered = current_session[1].topics_covered
                     /\ entry.performance_metrics = current_session[1].performance_metrics
                     /\ \/ SubSeq(new, 1, Len(new) - 1) = Logged
                        \/ /\ Len(Logged) >= 50
                           /\ SubSeq(new, 1, Len(new) - 1) = SubSeq(Logged, 2, Len(Logged))
              /\ current_session' = None
         ELSE UNCHANGED <<current_session, student_profile, profile_file,
                          sessions_file, temp_progress_file>>]_vars

\* A second session has ended.
C4_SecondSessionEnded ==
  /\ current_session = None
  /\ Len(Logged) >= 2
  /\ Logged[Len(Logged)].end_time # None

\* The JSON text holds the topics, counters, strengths, areas for
\* improvement and totals of the profile.
SameProfile(data, profile) ==
  /\ Len(data.topics) = Len(profile.topics)
  /\ \A k \in 1..Len(profile.topics) :
       /\ data.topics[k].topic_name = profile.topics[k].topic_name
       /\ data.topics[k].correct_answers = profile.topics[k].correct_answers
       /\ data.topics[k].incorrect_answers = profile.topics[k].incorrect_answers
       /\ data.topics[k].first_encountered = isoformat(profile.topics[k].first_encountered)
       /\ data.topics[k].last_studied = isoformat(profile.topics[k].last_studied)
       /\ data.topics[k].total_time_spent = profile.topics[k].total_time_spent
  /\ data.strengths = profile.strengths
  /\ data.areas_for_improvement = profile.areas_for_improvement
  /\ data.total_sessions = profile.total_sessions
  /\ data.total_learning_time = profile.total_learning_time

\* C5: after every operation, student_profile.json holds exactly the profile
\* in memory, and a tracker constructed on the same directory loads the same
\* profile.
C5_ProfileFileIsProfile ==
  /\ student_profile # None =>
       profile_file # None /\ SameProfile(profile_file[1], student_profile[1])
  /\ NewTracker(Tracker).student_profile = student_profile

\* A second answer was logged and saved.
C5_AnswersSaved ==
  /\ reply # None
  /\ reply[1].op = "log_answer"
  /\ AnswerCount >= 2
  /\ profile_file # None

\* The counters <<correct_answers, incorrect_answers>> of a topic; a topic
\* the profile lacks has no answers.
CountersOf(topic) ==
  IF student_profile = None \/ ~HasTopic(student_profile[1], topic) THEN <<0, 0>>
  ELSE LET p == student_profile[1].topics[TopicIndex(student_profile[1], topic)]
       IN  <<p.correct_answers, p.incorrect_answers>>

\* The mastery state: the counters of every topic, the strengths and the
\* areas for improvement.
Mastery ==
  [counters |-> [topic \in Topics |-> CountersOf(topic)],
   strengths |-> IF student_profile = None THEN <<>> ELSE student_profile[1].strengths,
   areas_for_improvement |->
     IF student_profile = None THEN <<>> ELSE student_profile[1].areas_for_improvement]

NoMastery ==
  [counters |-> [topic \in Topics |-> <<0, 0>>],
   strengths |-> <<>>, areas_for_improvement |-> <<>>]

\* C6: start_new_session and end_current_session leave the mastery state
\* unchanged; it is changed only by log_answer_result and cleared only by
\* reset_progress.
C6_MasterySurvivesSessions ==
  [][/\ (StartNewSession \/ EndCurrentSession) => Mastery' = Mastery
     /\ Mastery' # Mastery =>
          \/ \E topic \in Topics, is_correct \in BOOLEAN : LogAnswer(topic, is_correct)
          \/ ResetProgress
     /\ (Mastery' # Mastery /\ Mastery' = NoMastery) => ResetProgress]_vars

\* A session in which math was answered right has ended, and the answer
\* is still counted.
C6_AnswerOutlivesSession ==
  /\ current_session = None
  /\ ended # <<>>
  /\ ended[Len(ended)].performance_metrics.correct_answers >= 1
  /\ CountersOf("math")[1] >= 1

\* C7: get_topic_knowledge returns None for a topic the profile lacks, level
\* "unknown" with needs_assessment for a topic without answers, and
\* otherwise, without needs_assessment, "advanced" if c / t >= 0.8 and
\* t >= 5, else "intermediate" if c / t >= 0.6 and t >= 3, else "beginner".
C7_KnowledgeTable ==
  (reply # None /\ reply[1].op = "get_topic_knowledge") =>
    LET value == reply[1].value
        c == CountersOf(reply[1].topic)[1]
        t == CountersOf(reply[1].topic)[1] + CountersOf(reply[1].topic)[2]
    IN  IF student_profile = None \/ ~HasTopic(student_profile[1], reply[1].topic)
          THEN value = None
        ELSE /\ value # None
             /\ IF t = 0
                  THEN value[1].level = "unknown" /\ value[1].needs_assessment
                  ELSE /\ ~value[1].needs_assessment
                       /\ value[1].level =
                            IF 10 * c >= 8 * t /\ t >= 5 THEN "advanced"
                            ELSE IF 10 * c >= 6 * t /\ t >= 3 THEN "intermediate"
                            ELSE "beginner"

\* Four right answers out of five were reported as advanced.
C7_AdvancedAtFourOfFive ==
  /\ reply # None
  /\ reply[1].op = "get_topic_knowledge"
  /\ reply[1].value # None
  /\ reply[1].value[1].level = "advanced"
  /\ CountersOf(reply[1].topic) = <<4, 1>>

\* C8: absent reset_progress, the total_sessions get_current_progress
\* reports is the count of the profile loaded at startup plus the number of
\* sessions ended since.
C8_CumulativeSessionCount ==
  (reply # None /\ reply[1].op = "get_current_progress" /\ ~startup.reset) =>
    reply[1].value.total_sessions = startup.total_sessions + startup.ended

\* The snapshot of the session that _save_temp_progress writes.
Snapshot(session) ==
  [session_id |-> session.session_id,
   start_time |-> isoformat(session.start_time),
   topics_covered |-> session.topics_covered,
   performance |-> session.performance_metrics]

\* C9: start_new_session, log_interaction, log_answer_result,
\* mark_topic_encountered, save_learning_objective and
\* mark_objective_completed leave sessions.json unchanged; of these,
\* log_answer_result copies the id, start time, topics and metrics of the
\* session in progress to temp_progress.json.
C9_LogWrittenOnlyOnSessionEnd ==
  [][/\ ( \/ StartNewSession
          \/ \E u \in Texts : LogInteraction("assessment", u)
          \/ \E topic \in Topics, is_correct \in BOOLEAN : LogAnswer(topic, is_correct)
          \/ \E topic \in Topics : MarkTopicEncountered(topic)
          \/ \E objective \in Objectives : SaveLearningObjective(objective[2], objective)
          \/ \E objective \in Objectives : MarkObjectiveCompleted(objective) )
        => sessions_file' = sessions_file
     /\ \A topic \in Topics, is_correct \in BOOLEAN :
          (LogAnswer(topic, is_correct) /\ current_session # None) =>
            /\ temp_progress_file' # None
            /\ temp_progress_file'[1].current_session = Some(Snapshot(current_session'[1]))]_vars

\* An interaction was logged in a session that follows an ended one.
C9_InteractionAfterEndedSession ==
  /\ sessions_file # None
  /\ current_session # None
  /\ Len(current_session[1].interactions) >= 1

\* C9 as stated: until end_current_session runs, no file holds data of the
\* session in progress.
C9_SessionOnlyInMemory ==
  current_session # None =>
    ~(/\ temp_progress_file # None
      /\ temp_progress_file[1].current_session # None
      /\ temp_progress_file[1].current_session[1].session_id = current_session[1].session_id
      /\ temp_progress_file[1].current_session[1].performance =
           current_session[1].performance_metrics
      /\ current_session[1].performance_metrics.correct_answers
           + current_session[1].performance_metrics.incorrect_answers >= 1)

\* C10: whenever POST /learning/log_answer replies "Answer result logged
\* successfully" for a topic, one counter of the topic has grown by 1
\* (correct_answers if is_correct, else incorrect_answers) and the other is
\* unchanged, with or without a session active.
C10_LoggedAnswerCounted ==
  [][\A topic \in Topics, is_correct \in BOOLEAN :
       (/\ LogAnswer(topic, is_correct)
        /\ reply'[1].message = "Answer result logged successfully") =>
         CountersOf(topic)' =
           IF is_correct THEN <<CountersOf(topic)[1] + 1, CountersOf(topic)[2]>>
           ELSE <<CountersOf(topic)[1], CountersOf(topic)[2] + 1>>]_vars

\* The interactions the step has added to the session.
NewInteractions ==
  IF current_session' = None THEN <<>>
  ELSE SubSeq(current_session'[1].interactions,
              (IF current_session = None THEN 0
               ELSE Len(current_session[1].interactions)) + 1,
              Len(current_session'[1].interactions))

\* C11: when the command executor reports success = false for an utterance,
\* or a command module raises, _handle_command hands the utterance to the
\* educational path: the language model is queried after the failure, the
\* response is not of type "command", and the interaction logged for the
\* utterance is of type "educational", none of type "command".
C11_FailedCommandGoesToTutor ==
  [][(Processed' /\ Made(reply'[1].calls, "failure")) =>
       /\ reply'[1].response.type # "command"
       /\ \E k \in 1..Len(reply'[1].calls) :
            /\ reply'[1].calls[k] = "failure"
            /\ \E j \in (k + 1)..Len(reply'[1].calls) : reply'[1].calls[j] = "_query_llm"
       /\ \A k \in 1..Len(NewInteractions) :
            NewInteractions[k].input = reply'[1].text => NewInteractions[k].type # "command"
       /\ \E k \in 1..Len(NewInteractions) :
            /\ NewInteractions[k].input = reply'[1].text
            /\ NewInteractions[k].type = "educational"]_vars

\* The camera raised on "turn on the camera", and the tutor answered.
C11_CameraFailureTutored ==
  /\ Processed
  /\ reply[1].text = "turn on the camera"
  /\ Made(reply[1].calls, "failure")
  /\ reply[1].response.type = "educational"
  /\ current_session # None
  /\ current_session[1].interactions # <<>>
  /\ current_session[1].interactions[Len(current_session[1].interactions)].type = "educational"

Classifier == reply # None /\ reply[1].op = "classify_intent"

\* The patterns of the table whose regular expression matches the text.
Matching(patterns, t) == {k \in 1..Len(patterns) : ReSearch(patterns[k].pattern, t)}

\* The highest confidence among the patterns ks of the table.
Highest(patterns, ks) ==
  CHOOSE c \in {patterns[k].confidence : k \in ks} :
    \A k \in ks : patterns[k].confidence <= c

\* C13: classify_intent answers "command" exactly when a command regular
\* expression matches the lower-cased, trimmed text, whatever keywords the
\* text shares with the patterns and whatever educational patterns match;
\* otherwise it answers "educational" with a confidence of at least 0.5.
\* The confidence is the highest among the matching patterns of the table
\* the answer is taken from, and 0.5 when no educational pattern matches.
C13_CommandIffRegexMatches ==
  Classifier =>
    LET t == Strip(Lower(Join(reply[1].text)))
        result == reply[1].intent_result
        commands == Matching(command_patterns, t)
        educational == Matching(educational_patterns, t)
    IN  /\ result.intent = "command" <=> commands # {}
        /\ result.intent \in {"command", "educational"}
        /\ result.intent = "command" =>
             result.confidence = Highest(command_patterns, commands)
        /\ result.intent = "educational" =>
             /\ result.confidence >= Conf(5)
             /\ result.confidence = IF educational = {} THEN Conf(5)
                                    ELSE Highest(educational_patterns, educational)

\* A text that holds every keyword of the weather pattern and matches no
\* command regular expression was classified educational.
C13_KeywordsOnly ==
  /\ Classifier
  /\ reply[1].text = <<"weather", "temperature">>
  /\ reply[1].intent_result.intent = "educational"

\* C14: for every text that classify_intent labels a command,
\* get_command_type returns a command type, not None.
C14_CommandsHaveAType ==
  (Classifier /\ reply[1].intent_result.intent = "command") =>
    reply[1].command_type # "None"

\* C15: get_command_type returns "camera_off" for every text that matches
\* the turn-off pattern of the camera, and "camera_on" for every text that
\* matches the turn-on pattern and not the turn-off pattern.
C15_CameraTypeFollowsPattern ==
  Classifier =>
    LET t == Strip(Lower(Join(reply[1].text)))
        turn_on == ReSearch(command_patterns[1].pattern, t)
        turn_off == ReSearch(command_patterns[2].pattern, t)
    IN  /\ turn_off => reply[1].command_type = "camera_off"
        /\ (turn_on /\ ~turn_off) => reply[1].command_type = "camera_on"

\* The four results the numbers written in a request have, in integers.
RECURSIVE Added(_)
Added(ns) == IF ns = <<>> THEN 0 ELSE ns[1] + Added(Tail(ns))

RECURSIVE Multiplied(_)
Multiplied(ns) == IF ns = <<>> THEN 1 ELSE ns[1] * Multiplied(Tail(ns))

Expected(command_type, ns) ==
  CASE command_type = "math_addition" -> Added(ns)
    [] command_type = "math_subtraction" -> ns[1] - Added(Tail(ns))
    [] command_type = "math_multiplication" -> Multiplied(ns)
    [] command_type = "math_division" -> ns[1] \div Multiplied(Tail(ns))

MathTypes == {"math_addition", "math_subtraction", "math_multiplication", "math_division"}

\* The math command that has been executed is one C16 speaks of: two or
\* more numbers, and a division has no divisor 0 and an integral quotient.
Computable(r) ==
  /\ r.op = "execute_command"
  /\ r.command_type \in MathTypes
  /\ Len(r.request.numbers) >= 2
  /\ r.command_type = "math_division" =>
        /\ \A i \in 2..Len(r.request.numbers) : r.request.numbers[i] # 0
        /\ r.request.numbers[1] % Multiplied(Tail(r.request.numbers)) = 0

\* C16: for a math command whose text holds the non-negative integers
\* n1 .. nk (k >= 2) in that order, correct_value is the decimal text of
\* their sum, of n1 - n2 - .. - nk, of their product or of the integral
\* quotient n1 / n2 / .. / nk, according to the command type and however the
\* numbers are separated in the text.
C16_CorrectValueIsTheResult ==
  \A i \in 1..Len(reply) :
    Computable(reply[i]) =>
      /\ reply[i].result.success
      /\ reply[i].result.final_answer # None
      /\ reply[i].result.final_answer[1].correct_value
           = DecimalText(Expected(reply[i].command_type, reply[i].request.numbers))

\* The math command that has been executed is one that cannot be computed.
Incomputable(r) ==
  /\ r.op = "execute_command"
  /\ r.command_type \in MathTypes
  /\ \/ Len(_extract_numbers(r.text)) < 2
     \/ /\ r.command_type = "math_division"
        /\ \E i \in 2..Len(_extract_numbers(r.text)) : _extract_numbers(r.text)[i].num = 0

\* C17: a math command that cannot be computed (a division with a 0 among
\* the extracted numbers after the first, or fewer than two extracted
\* numbers) answers success = false with an empty scene and an empty
\* final_answer, and the math module marks no topic and logs no interaction.
C17_IncomputableFailsCleanly ==
  [][\A i \in 1..Len(reply') :
       Incomputable(reply'[i]) =>
         /\ ~reply'[i].result.success
         /\ reply'[i].result.scene = "[]"
         /\ reply'[i].result.final_answer = None
         /\ UNCHANGED <<current_session, student_profile, profile_file,
                        sessions_file, temp_progress_file>>]_vars

\* A division by 0 has been asked for and refused.
C17_DivisionByZeroRefused ==
  \E i \in 1..Len(reply) :
    /\ Incomputable(reply[i])
    /\ reply[i].command_type = "math_division"
    /\ Len(reply[i].request.numbers) = 3
    /\ reply[i].request.numbers[3] = 0
    /\ ~reply[i].result.success

\* The strengths and the areas for improvement of the profile.
Strengths == IF student_profile = None THEN <<>> ELSE student_profile[1].strengths

AreasForImprovement ==
  IF student_profile = None THEN <<>> ELSE student_profile[1].areas_for_improvement

NoRepeat(list) == \A i, j \in 1..Len(list) : list[i] = list[j] => i = j

\* C18: starting from an empty profile, after any sequence of
\* log_answer_result calls no topic is in both strengths and
\* areas_for_improvement, and neither list holds a topic twice.
C18_StrengthsApartFromAreas ==
  /\ \A topic \in Topics : ~(InList(topic, Strengths) /\ InList(topic, AreasForImprovement))
  /\ NoRepeat(Strengths)
  /\ NoRepeat(AreasForImprovement)

\* Math is an area for improvement and no strength, with the counters it
\* has after 3 right answers (which make it a strength) and then 4 wrong
\* ones, the last just logged, while reading is a strength.
C18_MathNoLongerAStrength ==
  /\ Strengths = <<"reading">>
  /\ AreasForImprovement = <<"math">>
  /\ \E k \in 1..Len(student_profile[1].topics) :
       /\ student_profile[1].topics[k].topic_name = "math"
       /\ student_profile[1].topics[k].correct_answers = 3
       /\ student_profile[1].topics[k].incorrect_answers = 4
  /\ reply # None /\ reply[1].op = "log_answer" /\ reply[1].topic = "math"
  /\ ~reply[1].is_correct

====
